---------------------------- MODULE Spec2Model ----------------------------
(***************************************************************************)
(* promptgen: the streaming multiplexer of Generator.Stream, the backends  *)
(* it reads from (MockProvider.Stream, OpenAI.Stream and an arbitrary      *)
(* implementation of the Provider interface), the consumer of a Stream,    *)
(* and the synchronous pipeline of Generator.Run.                          *)
(*                                                                         *)
(* An error value is the sequence of the messages of its unwrap chain,     *)
(* outermost first; the nil error is the empty sequence.  A prompt is a     *)
(* sequence of naturals (its characters).  A response text (a reply of     *)
(* Complete, a token of Stream) is a sequence of segments: a character, a  *)
(* fence marker (three backticks, optionally tagged json) or a JSON        *)
(* document; hooks append characters to it.                                *)
(***************************************************************************)
EXTENDS Naturals, Sequences, FiniteSets

\* ------------------------------------------------------------- bounds
\* Most tokens one backend emits in one stream.
MaxTokens == 2
\* Most hooks registered on the Generator.
MaxHooks == 2
\* Most wrappers around the error given to a classification predicate.
MaxWraps == 2
\* Latest instant of the caller's deadline, on the clock of a timed Run.
MaxTime == 4
\* Longest configured timeout, in ticks of that clock.
MaxDur == 3
\* Most calls in flight at once on one Generator or one MockProvider.
MaxCallers == 2
\* Most errors queued in MockProvider.Errors.
MaxErrs == 2

\* ------------------------------------------------------------- constants
\* Capacity of Stream.Err: make(chan error, 1).
ErrCap == 1
\* Capacity of MockProvider's errs: make(chan error, 1).
MockErrCap == 1

\* ------------------------------------------------------------- errors
Nil == <<>>
Canceled == <<"context canceled">>
DeadlineExceeded == <<"context deadline exceeded">>
\* errors.New("stream error"), the error the tests queue in MockProvider.Errors
StreamError == <<"stream error">>
\* the error stream.Recv() returns for a broken connection
RecvError == <<"connection reset">>
\* the error a failing hook returns
HookFailure == <<"hook failed">>
\* the error an arbitrary Provider puts on its error source
PortError == <<"backend error">>

\* fmt.Errorf(msg + ": %w", err)
Wrap(msg, err) == <<msg>> \o err

\* errors.Is(err, target) for a sentinel target: target is in err's chain
Is_TopOnly(err, target) == err = target

Is(err, target) == \E i \in 1..Len(err) : SubSeq(err, i, Len(err)) = target

\* ------------------------------------------------------------- response text
\* The values a field of a JSON object takes in a reply: the key is absent,
\* the value is a number (the wrong type for a string field), or a string
\* that is empty, shorter than the field's minLength, longer than its
\* maxLength, or within its bounds.
\* A JSON object with the keys title and description.
Doc(t, d) == [title |-> t, description |-> d]

\* The segments of a response text.
NoDoc == Doc("-", "-")
Chr(c) == [t |-> "ch", c |-> c, doc |-> NoDoc]
Fence == [t |-> "fence", c |-> 0, doc |-> NoDoc]
Json(doc) == [t |-> "json", c |-> 0, doc |-> doc]
\* A JSON object written out around the text of its title: the object up
\* to the quote that opens the title, and from the quote that closes it on
\* (with a description that fits).
Open == [t |-> "open", c |-> 0, doc |-> NoDoc]
Close == [t |-> "close", c |-> 0, doc |-> NoDoc]

\* ------------------------------------------------------------- hooks
\* Hook "A" puts its mark (7) before the prompt and after the response and
\* passes the error through (streamTestHook); "F" does the same with its
\* mark (8) but fails on a response that starts with the character 2 (in a
\* stream: on the second token); "R" fails on every prompt.
HookKinds == {"A", "F", "R"}

RECURSIVE SeqsUpTo(_, _)
SeqsUpTo(S, n) ==
    IF n = 0 THEN {<<>>}
    ELSE LET shorter == SeqsUpTo(S, n - 1)
         IN  shorter \cup {Append(s, x) : s \in shorter, x \in S}

\* hook.AfterResponse(ctx, content, nil) -> (content, err)
AfterResponse(hook, content) ==
    CASE hook = "A" -> [content |-> Append(content, Chr(7)), err |-> Nil]
      [] hook = "F" -> IF Head(content) = Chr(2)
                       THEN [content |-> content, err |-> HookFailure]
                       ELSE [content |-> Append(content, Chr(8)), err |-> Nil]
      [] hook = "R" -> [content |-> content, err |-> Nil]

\* hook.BeforeRequest(ctx, prompt) -> (prompt, err)
BeforeRequest(hook, prompt) ==
    CASE hook = "A" -> [prompt |-> <<7>> \o prompt, err |-> Nil]
      [] hook = "F" -> [prompt |-> <<8>> \o prompt, err |-> Nil]
      [] hook = "R" -> [prompt |-> prompt, err |-> HookFailure]

\* for _, hook := range g.hooks { wrappedPrompt, err = hook.BeforeRequest(...);
\*                                if err != nil { return } }
\* ran: the positions in g.hooks of the hooks that were invoked, in order.
RECURSIVE BeforeLoop(_, _, _, _)
BeforeLoop(hs, i, prompt, ran) ==
    IF i > Len(hs) THEN [prompt |-> prompt, err |-> Nil, ran |-> ran]
    ELSE LET r == BeforeRequest(hs[i], prompt)
         IN  IF r.err # Nil
             THEN [prompt |-> r.prompt, err |-> r.err, ran |-> Append(ran, i)]
             ELSE BeforeLoop(hs, i + 1, r.prompt, Append(ran, i))

\* Mutant: the loop goes on after a hook's error and reports the first
\* error at its end.
RECURSIVE BeforeLoop_KeepGoing(_, _, _, _, _)
BeforeLoop_KeepGoing(hs, i, prompt, ran, err) ==
    IF i > Len(hs) THEN [prompt |-> prompt, err |-> err, ran |-> ran]
    ELSE LET r == BeforeRequest(hs[i], prompt)
         IN  BeforeLoop_KeepGoing(hs, i + 1, r.prompt, Append(ran, i),
                                  IF err = Nil THEN r.err ELSE err)

RunBeforeHooks_KeepGoing(hs, prompt) ==
    BeforeLoop_KeepGoing(hs, 1, prompt, <<>>, Nil)

\* Mutant: the hooks run last registered first.
RunBeforeHooks_Reversed(hs, prompt) ==
    BeforeLoop([i \in 1..Len(hs) |-> hs[Len(hs) + 1 - i]], 1, prompt, <<>>)

RunBeforeHooks(hs, prompt) == BeforeLoop(hs, 1, prompt, <<>>)

\* The rendered template, and g.handler.WrapPrompt of it (the format
\* instructions follow the prompt).
Rendered == <<0>>
WrapPrompt(prompt) == prompt \o <<9>>

\* for _, hook := range g.hooks { content, err = hook.AfterResponse(...);
\*                                if err != nil { stop } }
\* ran: the positions in g.hooks of the hooks that were invoked, in order.
RECURSIVE AfterLoop(_, _, _, _)
AfterLoop(hs, i, content, ran) ==
    IF i > Len(hs) THEN [content |-> content, err |-> Nil, ran |-> ran]
    ELSE LET r == AfterResponse(hs[i], content)
         IN  IF r.err # Nil
             THEN [content |-> r.content, err |-> r.err, ran |-> Append(ran, i)]
             ELSE AfterLoop(hs, i + 1, r.content, Append(ran, i))

\* Mutant: the loop goes on after a hook's error and reports the first
\* error at its end.
RECURSIVE AfterLoop_KeepGoing(_, _, _, _, _)
AfterLoop_KeepGoing(hs, i, content, ran, err) ==
    IF i > Len(hs) THEN [content |-> content, err |-> err, ran |-> ran]
    ELSE LET r == AfterResponse(hs[i], content)
         IN  AfterLoop_KeepGoing(hs, i + 1, r.content, Append(ran, i),
                                 IF err = Nil THEN r.err ELSE err)

RunAfterHooks_KeepGoing(hs, content) ==
    AfterLoop_KeepGoing(hs, 1, content, <<>>, Nil)

RunAfterHooks(hs, content) == AfterLoop(hs, 1, content, <<>>)

\* The k-th token a backend emits.
Token(k) == <<Chr(k)>>

VARIABLES
    \* Generator configuration
    hooks,          \* g.hooks
    timeout,        \* g.timeout > 0
    \* the context that governs the call
    ctxErr,         \* ctx.Err()
    ctxCause,       \* what ended it
    \* the Stream call
    callPc,         \* "idle", "spawned" (goroutine started), "returned", "failed"
    \* backend
    kind,           \* "mock", "openai", "port"
    ntok,           \* len(m.StreamTokens)
    delay,          \* m.DelayMs > 0
    errorsQ,        \* len(m.Errors) > 0
    bpc,            \* position of the backend's producer goroutine
    bsent,          \* tokens handed over on the content source so far
    bputErr,        \* the error the backend has put on its error source, or Nil
    contentOffer,   \* token the producer is blocked sending (0: none)
    contentClosed,  \* close(content)
    errBuf,         \* buffered items of the error source
    errOffer,       \* error the producer is blocked sending (unbuffered), or Nil
    errClosed,      \* close(errs)
    \* multiplexer goroutine
    mpc,            \* "idle", "select", "send", "sendDone", "exited"
    held,           \* the token received and not yet published
    errQ,           \* buffer of stream.Err
    closed,         \* stream.Content, stream.Err, stream.Done are closed
    \* consumer of the Stream
    cmode,          \* "all", "contentOnly", "errDoneOnly"
    \* history
    log,            \* what the multiplexer has sent, in order; late: the
                    \* context had ended when it was sent
    \* the Generator
    otype,          \* the type O the Generator was created for
    handler,        \* g.handler: "none", "String", "Int", "Float", "Bool",
                    \* "JSON", or "custom" (one given to WithHandler)
    created,        \* Create: "no" (not called), "yes", "failed"
    \* a Run call on a clock
    now,            \* the clock
    callerDl,       \* the deadline of the caller's context (0: none)
    tmoDur,         \* g.timeout (0: none)
    startAt,        \* when Run reached its timeout step
    govDl,          \* the deadline of the context that governs the call
                    \* (0: none)
    expiredAt,      \* when that context expired
    tpc,            \* "off", "before", "running", "expired", "returned"
    \* the functions applied on their own
    predErr,        \* the error given to the classification predicates
    predOut,        \* what the four predicates answered, once applied
    boolText,       \* the response given to Bool.Parse, one character each
    boolOut,        \* what Bool.Parse returned, once applied
    \* the Run call
    provider,       \* g.provider: "nil", "custom", "default"
    envKey,         \* the environment holds the backend credential
    tmplOk,         \* the template executes on the input
    runPc,          \* the stage about to run, "InCall", "Done", "Failed", "off"
    runTrace,       \* the stages that have run, in order
    runPrompt,      \* the prompt so far
    runResp,        \* the response so far
    runOut,         \* the value Run returns
    runErr,         \* the error Run returns
    runErrMessage,  \* the Message of the *Error Run returns: the parts that
                    \* "; " joins
    completeCalls,  \* invocations of the backend's Complete
    callRet,        \* what Complete returned: the response and the error
    \* Run and Stream
    beforeRan,      \* the hooks whose BeforeRequest was invoked, in order
    afterRan,       \* the hooks whose AfterResponse Run invoked, in order
    backendPrompt,  \* the prompt handed to the backend's Complete or Stream
    streamErr,      \* the error Stream returns
    \* concurrent calls on a Generator with no backend
    gInst,          \* the instance g.provider holds (0: nil)
    gWrites,        \* the instances assigned to g.provider, in order
    made,           \* the instances DefaultOpenAI has constructed
    lazyOp,         \* per call: "Run" or "Stream"
    lazyPc,         \* per call: "off", "check", "create", "write", "use",
                    \* "called", "failed"
    lazySeen,       \* per call: the instance it found or constructed
    lazyUsed,       \* per call: the instance whose Complete or Stream it
                    \* invoked (0: none)
    \* concurrent calls on one MockProvider
    mMu,            \* m.mu: the call that holds it (0: free)
    mPrompts,       \* m.Prompts: the calls whose prompt it holds, in order
    mErrors,        \* m.Errors
    mQueued,        \* m.Errors as the test set it
    mockOp,         \* per call: "Complete" or "Stream"
    mockPc,         \* per call: the statement it is about to execute
    mockSlice,      \* per call: the slice it read (m.Prompts or m.Errors)
    mockErr,        \* per call: err, read from m.Errors[0] (0: none)
    mockRet         \* per call: the error it returned (0: none), once returned

streamVars == <<hooks, timeout, ctxErr, ctxCause, callPc, kind, ntok, delay,
                errorsQ, bpc, bsent, bputErr, contentOffer, contentClosed,
                errBuf, errOffer, errClosed, mpc, held, errQ, closed, cmode,
                log>>

runVars == <<provider, envKey, tmplOk, runPc, runTrace, runPrompt, runResp,
             runOut, runErr, runErrMessage, completeCalls, callRet>>

\* The variables of a Run call that are not fields of the Generator.
runLocals == <<envKey, tmplOk, runPc, runTrace, runPrompt, runResp, runOut,
               runErr, runErrMessage, completeCalls, callRet>>

callVars == <<beforeRan, backendPrompt, streamErr>>

genVars == <<otype, handler, created>>

pureVars == <<predErr, predOut, boolText, boolOut>>

timeVars == <<now, callerDl, tmoDur, startAt, govDl, expiredAt, tpc>>

lazyVars == <<gInst, gWrites, made, lazyOp, lazyPc, lazySeen, lazyUsed>>

mockVars == <<mMu, mPrompts, mErrors, mQueued, mockOp, mockPc, mockSlice,
              mockErr, mockRet>>

concVars == <<lazyVars, mockVars>>

vars == <<streamVars, runVars, callVars, genVars, pureVars, afterRan,
          timeVars, concVars>>

\* The configuration of the call, and with it what every step but the
\* AfterResponse loop of Run leaves as it is.
callCfg == <<hooks, timeout, kind, ntok, delay, errorsQ, cmode, genVars,
             pureVars, timeVars, concVars>>

cfgVars == <<callCfg, afterRan>>
ctxVars == <<ctxErr, ctxCause>>
backendVars == <<bpc, bsent, bputErr, contentOffer, contentClosed, errBuf,
                 errOffer, errClosed>>
muxVars == <<mpc, held, errQ, closed, log>>

\* ----------------------------------------------------------- Generator
\* ensureDefaultConfig, as a function of g.provider and of whether the
\* environment holds OPENAI_API_KEY: the backend field afterwards, and
\* whether nil is returned.
EnsureDefaultConfig_Replace(p, key) ==
    [provider |-> IF key THEN "default" ELSE p, ok |-> p # "nil" \/ key]

EnsureDefaultConfig_NeedsKey(p, key) ==
    [provider |-> IF p = "nil" /\ key THEN "default" ELSE p, ok |-> key]

EnsureDefaultConfig(p, key) ==
    IF p = "nil"
    THEN IF key
         THEN [provider |-> "default", ok |-> TRUE]
         ELSE [provider |-> "nil", ok |-> FALSE]
    ELSE [provider |-> p, ok |-> TRUE]

\* The types O a Generator is created for: the four the type switches name,
\* a struct, a slice, a number type other than int, a named type whose
\* underlying type is string, and a type the schema reflector panics on.
OTypes == {"string", "int", "float64", "bool", "struct", "slice", "int64",
           "namedString", "unsupported"}

\* handler.DetermineType[O]: a type switch on the zero value of O.
DetermineType_IntAsJSON(t) ==
    CASE t = "string" -> "TypeString"
      [] t \in {"float64", "bool"} -> "TypePrimitive"
      [] OTHER -> "TypeJSON"

DetermineType(t) ==
    CASE t = "string" -> "TypeString"
      [] t \in {"int", "float64", "bool"} -> "TypePrimitive"
      [] OTHER -> "TypeJSON"

\* primitive.New[O]: the handler, or an error for any other type.
PrimitiveNew(t) ==
    CASE t = "string" -> [h |-> "String", ok |-> TRUE]
      [] t = "int" -> [h |-> "Int", ok |-> TRUE]
      [] t = "float64" -> [h |-> "Float", ok |-> TRUE]
      [] t = "bool" -> [h |-> "Bool", ok |-> TRUE]
      [] OTHER -> [h |-> "none", ok |-> FALSE]

\* jsonhandler.New[O]: NewValidator recovers from the reflector's panic and
\* returns an error.
JsonNew(t) ==
    IF t = "unsupported"
    THEN [h |-> "none", ok |-> FALSE]
    ELSE [h |-> "JSON", ok |-> TRUE]

\* The handler selection of Create.
NewHandler(t) ==
    IF DetermineType(t) \in {"TypeString", "TypePrimitive"}
    THEN PrimitiveNew(t)
    ELSE JsonNew(t)

\* What no operation on the Generator touches: the calls' own state.
callState == <<kind, ntok, delay, errorsQ, cmode, ctxErr, ctxCause, callPc,
               bpc, bsent, bputErr, contentOffer, contentClosed, errBuf,
               errOffer, errClosed, mpc, held, errQ, closed, log,
               envKey, tmplOk, runPc, runTrace, runPrompt, runResp, runOut,
               runErr, runErrMessage, completeCalls, callRet,
               beforeRan, afterRan, backendPrompt, streamErr, pureVars,
               timeVars, concVars>>

\* Create[I, O](promptTemplate): the template parses and executes on the
\* zero I, or Create returns an error; then the handler is selected.
Create ==
    /\ created = "no"
    /\ \E valid \in BOOLEAN :
          IF valid /\ NewHandler(otype).ok
          THEN /\ created' = "yes"
               /\ handler' = NewHandler(otype).h
          ELSE /\ created' = "failed"
               /\ UNCHANGED handler
    /\ UNCHANGED <<otype, provider, hooks, timeout, callState>>

\* g.WithProvider(p)
WithProvider(p) ==
    /\ created = "yes"
    /\ provider' = p
    /\ UNCHANGED <<genVars, hooks, timeout, callState>>

\* g.WithHook(hook)
WithHook(k) ==
    /\ created = "yes"
    /\ Len(hooks) < MaxHooks
    /\ hooks' = Append(hooks, k)
    /\ UNCHANGED <<genVars, provider, timeout, callState>>

\* g.WithTimeout(timeout): a positive duration or zero
WithTimeout(t) ==
    /\ created = "yes"
    /\ timeout' = t
    /\ UNCHANGED <<genVars, provider, hooks, callState>>

\* g.WithHandler(h)
WithHandler(h) ==
    /\ created = "yes"
    /\ handler' = h
    /\ UNCHANGED <<otype, created, provider, hooks, timeout, callState>>

\* ------------------------------------------------------------- context
\* The governing context ends once, with one error.
EndCtx(err, cause) ==
    /\ ctxErr = Nil
    /\ ctxErr' = err
    /\ ctxCause' = cause

\* The caller cancels the context it passed to Stream.
CallerCancel ==
    /\ EndCtx(Canceled, "caller")
    /\ UNCHANGED <<cfgVars, runVars, callVars, callPc, backendVars, muxVars>>

\* The deadline of the caller's own context expires.
CallerDeadline ==
    /\ EndCtx(DeadlineExceeded, "deadline")
    /\ UNCHANGED <<cfgVars, runVars, callVars, callPc, backendVars, muxVars>>

\* The timer of context.WithTimeout(ctx, g.timeout) fires.
TimeoutExpire ==
    /\ timeout
    /\ \/ callPc \in {"spawned", "returned"}
       \/ runPc \notin {"off", "Configuring", "Done", "Failed"}
    /\ EndCtx(DeadlineExceeded, "timeout")
    /\ UNCHANGED <<cfgVars, runVars, callVars, callPc, backendVars, muxVars>>

\* ------------------------------------------------------------- Stream call
\* MockProvider.Stream up to its return: the queued error path closes
\* content, buffers the error and closes errs; otherwise the producer
\* goroutine is started.
MockStart ==
    IF errorsQ
    THEN /\ contentClosed' = TRUE
         /\ errBuf' = <<StreamError>>
         /\ errClosed' = TRUE
         /\ bputErr' = StreamError
         /\ bpc' = "done"
    ELSE /\ bpc' = "loop"
         /\ UNCHANGED <<contentClosed, errBuf, errClosed, bputErr>>

\* A Stream that goes on with whatever backend field it finds.
StreamConfigured_Unchecked ==
    UNCHANGED provider

\* g.ensureDefaultConfig() in Stream: a Generator with no backend gets the
\* default one when the environment holds the credential.
StreamConfigured ==
    /\ EnsureDefaultConfig(provider, envKey).ok
    /\ provider' = EnsureDefaultConfig(provider, envKey).provider

\* Generator.Stream returns the error of ensureDefaultConfig as it is.
StreamConfigFails ==
    /\ callPc = "idle"
    /\ ~EnsureDefaultConfig(provider, envKey).ok
    /\ callPc' = "failed"
    /\ streamErr' = Wrap("failed to create default provider",
                         <<"OPENAI_API_KEY environment variable is required">>)
    /\ UNCHANGED <<cfgVars, runVars, ctxVars, backendVars, muxVars, beforeRan,
                   backendPrompt>>

\* Generator.Stream up to the go statement, with a backend whose Stream
\* returns its two sources.
StreamCall ==
    /\ callPc = "idle"
    /\ StreamConfigured
    /\ LET r == RunBeforeHooks(hooks, WrapPrompt(Rendered))
       IN  /\ r.err = Nil
           /\ beforeRan' = r.ran
           /\ backendPrompt' = r.prompt
    /\ UNCHANGED streamErr
    /\ callPc' = "spawned"
    /\ CASE kind = "mock" -> MockStart
         [] kind = "openai" -> /\ bpc' = "recv"
                               /\ UNCHANGED <<contentClosed, errBuf, errClosed, bputErr>>
         [] kind = "port" -> /\ bpc' = "run"
                             /\ UNCHANGED <<contentClosed, errBuf, errClosed, bputErr>>
    /\ mpc' = "select"
    /\ UNCHANGED <<cfgVars, runLocals, ctxVars, bsent, contentOffer, errOffer,
                   held, errQ, closed, log>>

\* Generator.Stream returns an error and starts nothing: a BeforeRequest
\* hook failed ("hook error"), or OpenAI.Stream returned an error
\* (CreateChatCompletionStream failed, "provider stream failed").
StreamCallFails ==
    /\ callPc = "idle"
    /\ StreamConfigured
    /\ LET r == RunBeforeHooks(hooks, WrapPrompt(Rendered))
       IN  /\ beforeRan' = r.ran
           /\ IF r.err # Nil
              THEN /\ streamErr' = Wrap("hook error", r.err)
                   /\ UNCHANGED backendPrompt
              ELSE /\ kind = "openai"
                   /\ backendPrompt' = r.prompt
                   /\ streamErr' = Wrap("provider stream failed",
                                     Wrap("openai stream failed", RecvError))
    /\ callPc' = "failed"
    /\ UNCHANGED <<cfgVars, runLocals, ctxVars, backendVars, muxVars>>

\* Generator.Stream returns the Stream; its deferred cancel() of the
\* context derived by context.WithTimeout runs.
StreamReturn ==
    /\ callPc = "spawned"
    /\ callPc' = "returned"
    /\ IF timeout /\ ctxErr = Nil
       THEN EndCtx(Canceled, "return")
       ELSE UNCHANGED ctxVars
    /\ UNCHANGED <<cfgVars, runVars, callVars, backendVars, muxVars>>

\* ------------------------------------------------------------- MockProvider
\* The producer's deferred calls run last in, first out: close(errs), then
\* close(content).
BackendReturn == "closeErrs"

\* for _, token := range m.StreamTokens: the loop head, and the step into
\* the delay select or the send select.
MockLoop ==
    /\ kind = "mock" /\ bpc = "loop"
    /\ IF bsent >= ntok
       THEN /\ bpc' = BackendReturn
            /\ UNCHANGED contentOffer
       ELSE IF delay
            THEN /\ bpc' = "delay"
                 /\ UNCHANGED contentOffer
            ELSE /\ bpc' = "send"
                 /\ contentOffer' = bsent + 1
    /\ UNCHANGED <<cfgVars, runVars, callVars, ctxVars, callPc, bsent, bputErr, contentClosed,
                   errBuf, errOffer, errClosed, muxVars>>

\* case <-time.After(DelayMs): on to the send select.
MockDelayElapsed ==
    /\ kind = "mock" /\ bpc = "delay"
    /\ bpc' = "send"
    /\ contentOffer' = bsent + 1
    /\ UNCHANGED <<cfgVars, runVars, callVars, ctxVars, callPc, bsent, bputErr, contentClosed,
                   errBuf, errOffer, errClosed, muxVars>>

\* case <-ctx.Done() of either select: errs <- ctx.Err(); return.
MockCtxDone ==
    /\ kind = "mock" /\ bpc \in {"delay", "send"}
    /\ ctxErr # Nil
    /\ Len(errBuf) < MockErrCap
    /\ errBuf' = Append(errBuf, ctxErr)
    /\ bputErr' = ctxErr
    /\ contentOffer' = 0
    /\ bpc' = BackendReturn
    /\ UNCHANGED <<cfgVars, runVars, callVars, ctxVars, callPc, bsent, contentClosed, errOffer,
                   errClosed, muxVars>>

\* ------------------------------------------------------------- OpenAI
\* response, err := stream.Recv(): a chunk, io.EOF or an error; then the
\* producer blocks on contentChan <- ..., returns, or blocks on
\* errChan <- fmt.Errorf("stream receive failed: %w", err).  Once the
\* context has ended the error may be the context's.
OpenAIRecv ==
    /\ kind = "openai" /\ bpc = "recv"
    /\ \/ /\ bsent < MaxTokens
          /\ bpc' = "send"
          /\ contentOffer' = bsent + 1
          /\ UNCHANGED <<errOffer, bputErr>>
       \/ /\ bpc' = BackendReturn
          /\ UNCHANGED <<contentOffer, errOffer, bputErr>>
       \/ /\ \E e \in {RecvError, ctxErr} \ {Nil} :
                /\ errOffer' = Wrap("stream receive failed", e)
                /\ bputErr' = Wrap("stream receive failed", e)
          /\ bpc' = "sendErr"
          /\ UNCHANGED contentOffer
    /\ UNCHANGED <<cfgVars, runVars, callVars, ctxVars, callPc, bsent, contentClosed, errBuf,
                   errClosed, muxVars>>

\* ------------------------------------------------------------- deferred closes
\* defer close(errs) (mock.go, openai.go)
BackendCloseErrs ==
    /\ kind \in {"mock", "openai"} /\ bpc = "closeErrs"
    /\ errClosed' = TRUE
    /\ bpc' = "closeContent"
    /\ UNCHANGED <<cfgVars, runVars, callVars, ctxVars, callPc, bsent, bputErr, contentOffer,
                   contentClosed, errBuf, errOffer, muxVars>>

\* defer close(content) (mock.go, openai.go)
BackendCloseContent ==
    /\ kind \in {"mock", "openai"} /\ bpc = "closeContent"
    /\ contentClosed' = TRUE
    /\ bpc' = "done"
    /\ UNCHANGED <<cfgVars, runVars, callVars, ctxVars, callPc, bsent, bputErr, contentOffer,
                   errBuf, errOffer, errClosed, muxVars>>

\* ------------------------------------------------------------- any Provider
\* An implementation of the Provider interface that keeps the Backend Port
\* contract: it emits tokens on an unbuffered content source, puts at most
\* one error on an error source of capacity one while the content source
\* is open (the closure of content ends the stream), and closes each
\* source exactly once, in either order, never sending on a closed source.
PortOffer ==
    /\ kind = "port" /\ bpc = "run"
    /\ ~contentClosed /\ bsent < MaxTokens
    /\ bpc' = "send"
    /\ contentOffer' = bsent + 1
    /\ UNCHANGED <<cfgVars, runVars, callVars, ctxVars, callPc, bsent, bputErr, contentClosed,
                   errBuf, errOffer, errClosed, muxVars>>

\* The producer gives up a blocked send once the context has ended.
PortAbandon ==
    /\ kind = "port" /\ bpc = "send"
    /\ ctxErr # Nil
    /\ bpc' = "run"
    /\ contentOffer' = 0
    /\ UNCHANGED <<cfgVars, runVars, callVars, ctxVars, callPc, bsent, bputErr, contentClosed,
                   errBuf, errOffer, errClosed, muxVars>>

PortPutErr ==
    /\ kind = "port" /\ bpc = "run"
    /\ ~errClosed /\ ~contentClosed /\ bputErr = Nil
    /\ \E e \in {PortError, ctxErr} \ {Nil} :
          /\ errBuf' = Append(errBuf, e)
          /\ bputErr' = e
    /\ UNCHANGED <<cfgVars, runVars, callVars, ctxVars, callPc, bpc, bsent, contentOffer,
                   contentClosed, errOffer, errClosed, muxVars>>

PortCloseContent ==
    /\ kind = "port" /\ bpc = "run"
    /\ ~contentClosed
    /\ contentClosed' = TRUE
    /\ bpc' = IF errClosed THEN "done" ELSE "run"
    /\ UNCHANGED <<cfgVars, runVars, callVars, ctxVars, callPc, bsent, bputErr, contentOffer,
                   errBuf, errOffer, errClosed, muxVars>>

PortCloseErrs ==
    /\ kind = "port" /\ bpc = "run"
    /\ ~errClosed
    /\ errClosed' = TRUE
    /\ bpc' = IF contentClosed THEN "done" ELSE "run"
    /\ UNCHANGED <<cfgVars, runVars, callVars, ctxVars, callPc, bsent, bputErr, contentOffer,
                   contentClosed, errBuf, errOffer, muxVars>>

\* The producer's position after the multiplexer took the token it was
\* blocked sending.
AfterContentSent ==
    CASE kind = "mock" -> "loop"
      [] kind = "openai" -> "recv"
      [] kind = "port" -> "run"

\* ------------------------------------------------------------- multiplexer
\* A receive from the backend's error source can proceed: an item is
\* buffered, the producer is blocked sending one, or the source is closed.
ErrReady == errBuf # <<>> \/ errOffer # Nil \/ errClosed

\* err, ok := <-errChan: a closed, drained source yields the zero value.
ErrRecvOk == errBuf # <<>> \/ errOffer # Nil
ErrRecvValue ==
    IF errBuf # <<>> THEN Head(errBuf)
    ELSE IF errOffer # Nil THEN errOffer ELSE Nil

\* The receive's effect on the error source and on a producer blocked
\* sending on it.
TakeErr ==
    IF errBuf # <<>>
    THEN /\ errBuf' = Tail(errBuf)
         /\ UNCHANGED <<errOffer, bpc>>
    ELSE IF errOffer # Nil
         THEN /\ errOffer' = Nil
              /\ bpc' = BackendReturn
              /\ UNCHANGED errBuf
         ELSE UNCHANGED <<errBuf, errOffer, bpc>>

\* return: the deferred close(stream.Content); close(stream.Err);
\* close(stream.Done) run and the goroutine ends.
MuxReturn ==
    /\ closed' = TRUE
    /\ mpc' = "exited"

\* stream.Err <- e; return
SendErr(e) ==
    /\ Len(errQ) < ErrCap
    /\ errQ' = Append(errQ, e)
    /\ log' = Append(log, [ch |-> "Err", v |-> e, late |-> ctxErr # Nil])
    /\ MuxReturn

\* The consumer is receiving from stream.Content / from stream.Err and
\* stream.Done.
WantsContent == cmode \in {"all", "contentOnly"}
WantsTerminal == cmode \in {"all", "errDoneOnly"}

\* case <-ctx.Done(): stream.Err <- ctx.Err(); return
MuxCtxDone ==
    /\ mpc = "select"
    /\ ctxErr # Nil
    /\ SendErr(ctxErr)
    /\ UNCHANGED <<cfgVars, runVars, callVars, ctxVars, callPc, backendVars, held>>

\* Mutant: a token whose hook failed is published as the hook left it.
MuxRecvContent_IgnoreHookError ==
    /\ mpc = "select"
    /\ contentOffer # 0
    /\ held' = RunAfterHooks(hooks, Token(contentOffer)).content
    /\ mpc' = "send"
    /\ contentOffer' = 0
    /\ bsent' = bsent + 1
    /\ bpc' = AfterContentSent
    /\ UNCHANGED <<cfgVars, runVars, callVars, ctxVars, callPc, bputErr,
                   contentClosed, errBuf, errOffer, errClosed, errQ, log,
                   closed>>

\* case content, ok := <-contentChan with ok: the hooks' AfterResponse in
\* order; a hook error goes to stream.Err and ends the loop, otherwise the
\* multiplexer moves to the send select.
MuxRecvContent ==
    /\ mpc = "select"
    /\ contentOffer # 0
    /\ LET r == RunAfterHooks(hooks, Token(contentOffer))
       IN  IF r.err # Nil
           THEN /\ SendErr(Wrap("hook error", r.err))
                /\ UNCHANGED held
           ELSE /\ held' = r.content
                /\ mpc' = "send"
                /\ UNCHANGED <<errQ, log, closed>>
    /\ contentOffer' = 0
    /\ bsent' = bsent + 1
    /\ bpc' = AfterContentSent
    /\ UNCHANGED <<cfgVars, runVars, callVars, ctxVars, callPc, bputErr, contentClosed, errBuf,
                   errOffer, errClosed>>

\* Mutant: the error of the inner select is sent and the completion signal
\* follows it (the deferred Done send of the first Stream).
MuxContentClosed_AlsoDone ==
    /\ mpc = "select"
    /\ contentClosed
    /\ IF ErrReady
       THEN /\ errQ' = Append(errQ, ErrRecvValue)
            /\ log' = Append(log, [ch |-> "Err", v |-> ErrRecvValue, late |-> ctxErr # Nil])
            /\ TakeErr
       ELSE UNCHANGED <<errQ, log, errBuf, errOffer, bpc>>
    /\ mpc' = "sendDone"
    /\ UNCHANGED <<cfgVars, runVars, callVars, ctxVars, callPc, bsent, bputErr, contentOffer,
                   contentClosed, errClosed, held, closed>>

\* Mutant: no look at the error source when the content source is closed.
MuxContentClosed_NoCheck ==
    /\ mpc = "select"
    /\ contentClosed
    /\ mpc' = "sendDone"
    /\ UNCHANGED <<cfgVars, runVars, callVars, ctxVars, callPc, backendVars, held, errQ,
                   closed, log>>

\* case content, ok := <-contentChan with !ok: the inner select takes an
\* item of the error source if the receive can proceed, and otherwise
\* (default) goes on to send on stream.Done.
MuxContentClosed ==
    /\ mpc = "select"
    /\ contentClosed
    /\ IF ErrReady
       THEN /\ SendErr(ErrRecvValue)
            /\ TakeErr
       ELSE /\ mpc' = "sendDone"
            /\ UNCHANGED <<errQ, log, closed, errBuf, errOffer, bpc>>
    /\ UNCHANGED <<cfgVars, runVars, callVars, ctxVars, callPc, bsent, bputErr, contentOffer,
                   contentClosed, errClosed, held>>

\* Mutant: a received error is taken and the loop continues.
MuxRecvErr_Drop ==
    /\ mpc = "select"
    /\ ErrReady
    /\ TakeErr
    /\ UNCHANGED <<cfgVars, runVars, callVars, ctxVars, callPc, bsent, bputErr, contentOffer,
                   contentClosed, errClosed, mpc, held, errQ, closed, log>>

\* case err, ok := <-errChan: !ok continues the loop, otherwise
\* stream.Err <- err; return.
MuxRecvErr ==
    /\ mpc = "select"
    /\ ErrReady
    /\ IF ErrRecvOk
       THEN /\ SendErr(ErrRecvValue)
            /\ TakeErr
       ELSE UNCHANGED <<mpc, errQ, log, closed, errBuf, errOffer, bpc>>
    /\ UNCHANGED <<cfgVars, runVars, callVars, ctxVars, callPc, bsent, bputErr, contentOffer,
                   contentClosed, errClosed, held>>

\* Mutant: the published token stays held, a copy of it buffered.
MuxSendContent_KeepsHeld ==
    /\ mpc = "send"
    /\ WantsContent
    /\ log' = Append(log, [ch |-> "Content", v |-> held, late |-> ctxErr # Nil])
    /\ mpc' = "select"
    /\ UNCHANGED <<cfgVars, runVars, callVars, ctxVars, callPc, backendVars, errQ,
                   closed, held>>

\* send select, case stream.Content <- content: the consumer receives it.
MuxSendContent ==
    /\ mpc = "send"
    /\ WantsContent
    /\ log' = Append(log, [ch |-> "Content", v |-> held, late |-> ctxErr # Nil])
    /\ held' = <<>>
    /\ mpc' = "select"
    /\ UNCHANGED <<cfgVars, runVars, callVars, ctxVars, callPc, backendVars, errQ, closed>>

\* Mutant: a plain stream.Content <- content, with no ctx.Done case.
MuxSendCtxDone_Absent ==
    /\ FALSE
    /\ UNCHANGED vars

\* send select, case <-ctx.Done(): stream.Err <- ctx.Err(); return
MuxSendCtxDone ==
    /\ mpc = "send"
    /\ ctxErr # Nil
    /\ SendErr(ctxErr)
    /\ held' = <<>>
    /\ UNCHANGED <<cfgVars, runVars, callVars, ctxVars, callPc, backendVars>>

\* stream.Done <- struct{}{} on the unbuffered Done: proceeds when the
\* consumer receives it; return.
MuxSendDone ==
    /\ mpc = "sendDone"
    /\ WantsTerminal
    /\ log' = Append(log, [ch |-> "Done", v |-> Nil, late |-> ctxErr # Nil])
    /\ MuxReturn
    /\ UNCHANGED <<cfgVars, runVars, callVars, ctxVars, callPc, backendVars, held, errQ>>

\* ------------------------------------------------------------- consumer
\* The consumer receives the buffered value of stream.Err.
ConsumerRecvErr ==
    /\ WantsTerminal
    /\ errQ # <<>>
    /\ errQ' = Tail(errQ)
    /\ UNCHANGED <<cfgVars, runVars, callVars, ctxVars, callPc, backendVars, mpc, held, closed, log>>

\* ------------------------------------------------------------- Run
\* Sentinels of the package and of the provider package.
ErrInvalidResponse == <<"invalid response from provider">>
ErrValidation == <<"validation failed">>
ErrConfiguration == <<"invalid configuration">>
ErrTimeout == <<"request timeout">>
ErrRateLimit == <<"rate limit exceeded">>
ErrContextLength == <<"context length exceeded">>
ProviderErrRateLimit == <<"provider: rate limit exceeded">>
ProviderErrContextLength == <<"provider: context length exceeded">>

\* The predicates callers branch on.
IsTimeout(err) == Is(err, ErrTimeout)
IsValidation(err) == Is(err, ErrValidation)
IsRateLimit(err) == Is(err, ErrRateLimit)
IsContextLength(err) == Is(err, ErrContextLength)

\* The stages of one Run call, in the order of the code.
StageOrder ==
    <<"Configuring", "Rendering", "Wrapping", "BeforeHooks", "Calling",
      "AfterHooks", "Parsing", "Validating">>

\* ------------------------------------------------------------- structured output
\* O is a struct of two string fields, both declared required:
\*   Title       string `json:"title" jsonschema:"required,maxLength=100"`
\*   Description string `json:"description" jsonschema:"required,minLength=100"`
\* var output O: both fields are the empty string.
ZeroO == Doc("empty", "empty")

\* The JSON objects a reply carries.
TitleValues == {"absent", "number", "fits", "long"}
DescriptionValues == {"absent", "short", "fits"}
Docs == {Doc(t, d) : t \in TitleValues, d \in DescriptionValues}

\* The replies a backend's Complete gives: a JSON object as the whole text,
\* a JSON object in a fenced block after some prose, prose only, a fenced
\* block that holds prose, a JSON object after an opening fence that is
\* never closed, a fenced block of prose followed by a fenced JSON
\* object, two fenced JSON objects with prose between them, and a JSON
\* object whose title is a text with a fenced block in it.
Replies ==
    {<<Json(d)>> : d \in Docs}
    \cup {<<Chr(1), Fence, Json(d), Fence>> : d \in Docs}
    \cup {<<Chr(2)>>,
          <<Fence, Chr(1), Fence>>,
          <<Fence, Json(Doc("fits", "fits"))>>,
          <<Fence, Chr(1), Fence, Fence, Json(Doc("fits", "fits")), Fence>>,
          <<Fence, Json(Doc("fits", "fits")), Fence, Chr(1),
            Fence, Json(Doc("long", "fits")), Fence>>,
          <<Open, Fence, Chr(1), Fence, Close>>}

\* jsonRegex.FindStringSubmatch(response): the positions of the fence
\* markers; the first match runs from the first marker to the next one.
FenceAt(text) == {i \in 1..Len(text) : text[i] = Fence}
Least(S) == CHOOSE i \in S : \A j \in S : i <= j

\* Mutant: the text between fences only; a text with no fenced block yields
\* nothing ("no JSON found in response").
Extract_FencedOnly(text) ==
    IF Cardinality(FenceAt(text)) >= 2
    THEN LET i == Least(FenceAt(text))
             j == Least(FenceAt(text) \ {i})
         IN  SubSeq(text, i + 1, j - 1)
    ELSE <<>>

\* jsonStr := response; if the pattern matches, jsonStr = matches[1]
Extract(text) ==
    IF Cardinality(FenceAt(text)) >= 2
    THEN LET i == Least(FenceAt(text))
             j == Least(FenceAt(text) \ {i})
         IN  SubSeq(text, i + 1, j - 1)
    ELSE text

\* What decoding makes of one field: a missing key leaves the field at its
\* zero value, and so does a value of the wrong type.
DecodeField(v) == IF v \in {"absent", "number"} THEN "empty" ELSE v

\* json.Unmarshal([]byte(jsonStr), &output): the text must be one JSON
\* value and nothing else; a number for a string field is an error, the
\* other fields are still decoded.
Unmarshal(jsonStr) ==
    IF Len(jsonStr) = 1 /\ jsonStr[1].t = "json"
    THEN LET d == jsonStr[1].doc
         IN  [out |-> Doc(DecodeField(d.title), DecodeField(d.description)),
              ok |-> d.title # "number"]
    ELSE IF /\ Len(jsonStr) >= 2
            /\ jsonStr[1] = Open /\ jsonStr[Len(jsonStr)] = Close
            /\ \A i \in 2..(Len(jsonStr) - 1) : jsonStr[i].t \in {"ch", "fence"}
         THEN [out |-> Doc("fits", "fits"), ok |-> TRUE]
         ELSE [out |-> ZeroO, ok |-> FALSE]

\* Mutant: when the fenced block does not decode, the whole reply is tried.
Parse_Fallback(response) ==
    IF Unmarshal(Extract(response)).ok
    THEN Unmarshal(Extract(response))
    ELSE Unmarshal(response)

\* g.handler.Parse(response) -> (O, error)
Parse(response) == Unmarshal(Extract(response))
ParseFails(response) == ~Parse(response).ok

\* json.Marshal(output): every field of O is written under its key, the
\* empty string included (no omitempty).
Marshal(output) == Doc(output.title, output.description)

\* Append x to s when the condition holds.
AppendIf(s, cond, x) == IF cond THEN Append(s, x) ELSE s

\* Mutant: only the first violation is reported.
SchemaErrors_First(doc) ==
    LET all == AppendIf(AppendIf(AppendIf(AppendIf(AppendIf(<<>>,
                   doc.title = "absent", "title is required"),
                   doc.description = "absent", "description is required"),
                   doc.title = "number", "title: Invalid type"),
                   doc.title = "long", "title: String length must be less than or equal to 100"),
                   doc.description \in {"empty", "short"},
                   "description: String length must be greater than or equal to 100")
    IN  IF all = <<>> THEN <<>> ELSE <<Head(all)>>

\* Validator.Validate(data): the descriptions of the rules the document
\* violates (result.Errors()), one for each.
SchemaErrors(doc) ==
    AppendIf(AppendIf(AppendIf(AppendIf(AppendIf(<<>>,
        doc.title = "absent", "title is required"),
        doc.description = "absent", "description is required"),
        doc.title = "number", "title: Invalid type"),
        doc.title = "long", "title: String length must be less than or equal to 100"),
        doc.description \in {"empty", "short"},
        "description: String length must be greater than or equal to 100")

\* g.handler.Validate(output) -> error: the output is serialized again and
\* that text is checked against the schema.
Validate(output) == SchemaErrors(Marshal(output))
ValidateFails(output) == Validate(output) # <<>>

\* ------------------------------------------------------------- Run stages
\* The errors a backend's Complete returns: the error a test queued in
\* MockProvider.Errors, OpenAI's reclassified API errors, and, once the
\* context has ended, the context's error (bare from the mock, wrapped by
\* OpenAI).
CompleteErrors ==
    {StreamError,
     Wrap("openai", ProviderErrRateLimit),
     Wrap("openai", ProviderErrContextLength)}
    \cup (IF ctxErr = Nil THEN {}
          ELSE {ctxErr, Wrap("openai completion failed", ctxErr)})

\* return output, err: the call ends with the error
RunFail(err) ==
    /\ runErr' = err
    /\ runPc' = "Failed"

\* ensureDefaultConfig, then the derivation of the deadline context
RunConfigure ==
    /\ runPc = "Configuring"
    /\ runTrace' = Append(runTrace, "Configuring")
    /\ provider' = EnsureDefaultConfig(provider, envKey).provider
    /\ IF ~EnsureDefaultConfig(provider, envKey).ok
       THEN RunFail(Wrap("config_error", ErrConfiguration))
       ELSE /\ runPc' = "Rendering"
            /\ UNCHANGED runErr
    /\ UNCHANGED <<cfgVars, ctxVars, callPc, backendVars, muxVars, callVars,
                   envKey, tmplOk, runPrompt, runResp, runOut, runErrMessage,
                   completeCalls, callRet>>

\* g.prompt.Execute(&buf, input)
RunRender ==
    /\ runPc = "Rendering"
    /\ runTrace' = Append(runTrace, "Rendering")
    /\ IF tmplOk
       THEN /\ runPrompt' = Rendered
            /\ runPc' = "Wrapping"
            /\ UNCHANGED runErr
       ELSE /\ RunFail(Wrap("failed to execute template", <<"template error">>))
            /\ UNCHANGED runPrompt
    /\ UNCHANGED <<cfgVars, ctxVars, callPc, backendVars, muxVars, callVars,
                   provider, envKey, tmplOk, runResp, runOut, runErrMessage,
                   completeCalls, callRet>>

\* g.handler.WrapPrompt(buf.String())
RunWrap ==
    /\ runPc = "Wrapping"
    /\ runTrace' = Append(runTrace, "Wrapping")
    /\ runPrompt' = WrapPrompt(runPrompt)
    /\ runPc' = "BeforeHooks"
    /\ UNCHANGED <<cfgVars, ctxVars, callPc, backendVars, muxVars, callVars,
                   provider, envKey, tmplOk, runResp, runOut, runErr,
                   runErrMessage, completeCalls, callRet>>

\* the BeforeRequest loop
RunBefore ==
    /\ runPc = "BeforeHooks"
    /\ runTrace' = Append(runTrace, "BeforeHooks")
    /\ LET r == RunBeforeHooks(hooks, runPrompt)
       IN  /\ beforeRan' = r.ran
           /\ IF r.err # Nil
              THEN /\ RunFail(Wrap("hook error", r.err))
                   /\ UNCHANGED runPrompt
              ELSE /\ runPrompt' = r.prompt
                   /\ runPc' = "Calling"
                   /\ UNCHANGED runErr
    /\ UNCHANGED <<cfgVars, ctxVars, callPc, backendVars, muxVars,
                   backendPrompt, streamErr,
                   provider, envKey, tmplOk, runResp, runOut, runErrMessage,
                   completeCalls, callRet>>

\* g.provider.Complete(ctx, wrappedPrompt) is invoked
RunCall ==
    /\ runPc = "Calling"
    /\ runTrace' = Append(runTrace, "Calling")
    /\ completeCalls' = completeCalls + 1
    /\ backendPrompt' = runPrompt
    /\ runPc' = "InCall"
    /\ UNCHANGED <<cfgVars, ctxVars, callPc, backendVars, muxVars,
                   beforeRan, streamErr,
                   provider, envKey, tmplOk, runPrompt, runResp, runOut,
                   runErr, runErrMessage, callRet>>

\* Mutant: the backend's error is returned as it is.
Classify_PassThrough(err) == err

\* Mutant: the switch looks at the backend's error only.
Classify_ErrorOnly(err) ==
    IF Is(err, DeadlineExceeded) THEN ErrTimeout
    ELSE IF Is(err, Canceled) THEN Wrap("request canceled", err)
    ELSE IF Is(err, ProviderErrRateLimit) THEN ErrRateLimit
    ELSE IF Is(err, ProviderErrContextLength) THEN ErrContextLength
    ELSE err

\* The classification of a backend error: the switch after Complete.
Classify(err) ==
    IF Is(err, DeadlineExceeded) \/ ctxErr = DeadlineExceeded THEN ErrTimeout
    ELSE IF Is(err, Canceled) THEN Wrap("request canceled", err)
    ELSE IF Is(err, ProviderErrRateLimit) THEN ErrRateLimit
    ELSE IF Is(err, ProviderErrContextLength) THEN ErrContextLength
    ELSE err

\* Mutant: every ended context is reported as a timeout.
ClassifyCtx_AlwaysTimeout == ErrTimeout

\* The check of the context after a successful response.
ClassifyCtx ==
    IF ctxErr = DeadlineExceeded THEN ErrTimeout
    ELSE Wrap("request canceled", ctxErr)

\* What the return of Complete leaves the call's other variables at.
CallReturnFrame ==
    UNCHANGED <<cfgVars, ctxVars, callPc, backendVars, muxVars, callVars,
                provider, envKey, tmplOk, runTrace, runPrompt, runOut,
                runErrMessage, completeCalls>>

\* Mutant: a failed Complete is retried.
RunCallReturns_Retry ==
    /\ runPc = "InCall"
    /\ \/ /\ CompleteErrors # {}
          /\ runPc' = "Calling"
          /\ UNCHANGED <<runResp, runErr, callRet>>
       \/ \E r \in Replies :
             /\ runResp' = r
             /\ callRet' = [resp |-> r, err |-> Nil]
             /\ runPc' = "AfterHooks"
             /\ UNCHANGED runErr
    /\ CallReturnFrame

\* Mutant: a reply is taken without a look at the context.
RunCallReturns_NoCtxCheck ==
    /\ runPc = "InCall"
    /\ \/ \E e \in CompleteErrors :
             /\ callRet' = [resp |-> <<>>, err |-> e]
             /\ runResp' = <<>>
             /\ RunFail(Classify(e))
       \/ \E r \in Replies :
             /\ callRet' = [resp |-> r, err |-> Nil]
             /\ runResp' = r
             /\ runPc' = "AfterHooks"
             /\ UNCHANGED runErr
    /\ CallReturnFrame

\* Mutant: the after hooks run on a failed completion too (the earlier Run).
RunCallReturns_HooksOnError ==
    /\ runPc = "InCall"
    /\ \/ \E e \in CompleteErrors :
             /\ callRet' = [resp |-> <<Chr(1)>>, err |-> e]
             /\ runResp' = <<Chr(1)>>
             /\ runPc' = "AfterHooks"
             /\ UNCHANGED runErr
       \/ \E r \in Replies :
             /\ callRet' = [resp |-> r, err |-> Nil]
             /\ runResp' = r
             /\ runPc' = "AfterHooks"
             /\ UNCHANGED runErr
    /\ CallReturnFrame

\* response, err := g.provider.Complete(...) returns: an error is
\* classified and returned at once; after a reply the context is checked,
\* then the call moves on to the after hooks.
RunCallReturns ==
    /\ runPc = "InCall"
    /\ \/ \E e \in CompleteErrors :
             /\ callRet' = [resp |-> <<>>, err |-> e]
             /\ runResp' = <<>>
             /\ RunFail(Classify(e))
       \/ \E r \in Replies :
             /\ callRet' = [resp |-> r, err |-> Nil]
             /\ runResp' = r
             /\ IF ctxErr # Nil
                THEN RunFail(ClassifyCtx)
                ELSE /\ runPc' = "AfterHooks"
                     /\ UNCHANGED runErr
    /\ CallReturnFrame

\* the AfterResponse loop
RunAfter ==
    /\ runPc = "AfterHooks"
    /\ runTrace' = Append(runTrace, "AfterHooks")
    /\ LET r == RunAfterHooks(hooks, runResp)
       IN  /\ afterRan' = r.ran
           /\ IF r.err # Nil
              THEN /\ RunFail(Wrap("hook error", r.err))
                   /\ UNCHANGED runResp
              ELSE /\ runResp' = r.content
                   /\ runPc' = "Parsing"
                   /\ UNCHANGED runErr
    /\ UNCHANGED <<callCfg, ctxVars, callPc, backendVars, muxVars, callVars,
                   provider, envKey, tmplOk, runPrompt, runOut, runErrMessage,
                   completeCalls, callRet>>

\* Mutant: a reply that does not parse goes on to validation with what was
\* decoded.
RunParse_Lenient ==
    /\ runPc = "Parsing"
    /\ runTrace' = Append(runTrace, "Parsing")
    /\ runOut' = Parse(runResp).out
    /\ runPc' = "Validating"
    /\ UNCHANGED <<cfgVars, ctxVars, callPc, backendVars, muxVars, callVars,
                   provider, envKey, tmplOk, runPrompt, runResp, runErr,
                   runErrMessage, completeCalls, callRet>>

\* output, err = g.handler.Parse(response); on failure what was decoded is
\* returned beside the error.
RunParse ==
    /\ runPc = "Parsing"
    /\ runTrace' = Append(runTrace, "Parsing")
    /\ runOut' = Parse(runResp).out
    /\ IF ParseFails(runResp)
       THEN /\ RunFail(Wrap("parse_failed", ErrInvalidResponse))
            /\ runErrMessage' = <<"failed to parse response">>
       ELSE /\ runPc' = "Validating"
            /\ UNCHANGED <<runErr, runErrMessage>>
    /\ UNCHANGED <<cfgVars, ctxVars, callPc, backendVars, muxVars, callVars,
                   provider, envKey, tmplOk, runPrompt, runResp,
                   completeCalls, callRet>>

\* Mutant: a value that fails validation is not returned.
RunValidate_ZeroOnError ==
    /\ runPc = "Validating"
    /\ runTrace' = Append(runTrace, "Validating")
    /\ IF ValidateFails(runOut)
       THEN /\ RunFail(Wrap("validation_failed", ErrValidation))
            /\ runErrMessage' = Validate(runOut)
            /\ runOut' = ZeroO
       ELSE /\ runPc' = "Done"
            /\ UNCHANGED <<runErr, runErrMessage, runOut>>
    /\ UNCHANGED <<cfgVars, ctxVars, callPc, backendVars, muxVars, callVars,
                   provider, envKey, tmplOk, runPrompt, runResp,
                   completeCalls, callRet>>

\* g.handler.Validate(output); on failure the parsed output is returned
\* beside the error, whose Message is the validator's.
RunValidate ==
    /\ runPc = "Validating"
    /\ runTrace' = Append(runTrace, "Validating")
    /\ IF ValidateFails(runOut)
       THEN /\ RunFail(Wrap("validation_failed", ErrValidation))
            /\ runErrMessage' = Validate(runOut)
       ELSE /\ runPc' = "Done"
            /\ UNCHANGED <<runErr, runErrMessage>>
    /\ UNCHANGED <<cfgVars, ctxVars, callPc, backendVars, muxVars, callVars,
                   provider, envKey, tmplOk, runPrompt, runResp, runOut,
                   completeCalls, callRet>>

\* ------------------------------------------------------------- specification
\* A configured Generator and a live context.
NoAnswers == [applied |-> FALSE, validation |-> FALSE, timeout |-> FALSE,
              rateLimit |-> FALSE, contextLength |-> FALSE]

NoParse == [applied |-> FALSE, value |-> FALSE, err |-> Nil]

\* No Run call is followed on a clock.
TimeOff ==
    /\ now = 0 /\ callerDl = 0 /\ tmoDur = 0
    /\ startAt = 0 /\ govDl = 0 /\ expiredAt = 0
    /\ tpc = "off"

\* No concurrent calls are followed.
ConcOff ==
    /\ gInst = 0 /\ gWrites = <<>> /\ made = 0
    /\ lazyOp = <<>> /\ lazyPc = <<>> /\ lazySeen = <<>> /\ lazyUsed = <<>>
    /\ mMu = 0 /\ mPrompts = <<>> /\ mErrors = <<>> /\ mQueued = <<>>
    /\ mockOp = <<>> /\ mockPc = <<>> /\ mockSlice = <<>>
    /\ mockErr = <<>> /\ mockRet = <<>>

PureOff ==
    /\ TimeOff
    /\ ConcOff
    /\ predErr = Nil /\ predOut = NoAnswers
    /\ boolText = <<>> /\ boolOut = NoParse

GenInit ==
    /\ PureOff
    /\ otype = "struct" /\ handler = "JSON" /\ created = "yes"
    /\ hooks \in SeqsUpTo(HookKinds, MaxHooks)
    /\ timeout \in BOOLEAN
    /\ ctxErr = Nil /\ ctxCause = "none"

\* No Run call is made.
RunOff ==
    /\ tmplOk = TRUE
    /\ runPc = "off" /\ runTrace = <<>>
    /\ runPrompt = <<>> /\ runResp = <<>> /\ runOut = ZeroO /\ runErr = Nil
    /\ runErrMessage = <<>>
    /\ completeCalls = 0 /\ callRet = [resp |-> <<>>, err |-> Nil]
    /\ beforeRan = <<>> /\ backendPrompt = <<>> /\ streamErr = Nil
    /\ afterRan = <<>>

\* One Stream call on a Generator with a backend set by WithProvider, or
\* with none (the default backend is then OpenAI's; its consumer receives
\* from all three outputs); the credential is read only when there is none.
Init ==
    /\ GenInit
    /\ RunOff
    /\ provider \in {"custom", "nil"}
    /\ envKey \in (IF provider = "nil" THEN BOOLEAN ELSE {FALSE})
    /\ callPc = "idle"
    /\ kind \in (IF provider = "nil" THEN {"openai"} ELSE {"mock", "openai", "port"})
    /\ errorsQ \in (IF kind = "mock" THEN BOOLEAN ELSE {FALSE})
    /\ ntok \in (IF kind = "mock" /\ ~errorsQ THEN 0..MaxTokens ELSE {0})
    /\ delay \in (IF kind = "mock" /\ ~errorsQ THEN BOOLEAN ELSE {FALSE})
    /\ bpc = "idle" /\ bsent = 0 /\ bputErr = Nil
    /\ contentOffer = 0 /\ contentClosed = FALSE
    /\ errBuf = <<>> /\ errOffer = Nil /\ errClosed = FALSE
    /\ mpc = "idle" /\ held = <<>> /\ errQ = <<>> /\ closed = FALSE
    /\ cmode \in (IF provider = "nil" THEN {"all"}
                  ELSE {"all", "contentOnly", "errDoneOnly"})
    /\ log = <<>>

Backend ==
    \/ MockLoop \/ MockDelayElapsed \/ MockCtxDone
    \/ OpenAIRecv
    \/ BackendCloseErrs \/ BackendCloseContent
    \/ PortOffer \/ PortAbandon \/ PortPutErr \/ PortCloseContent \/ PortCloseErrs

Mux ==
    \/ MuxCtxDone \/ MuxRecvContent \/ MuxContentClosed \/ MuxRecvErr
    \/ MuxSendContent \/ MuxSendCtxDone \/ MuxSendDone

Next ==
    \/ CallerCancel \/ CallerDeadline \/ TimeoutExpire
    \/ StreamConfigFails \/ StreamCall \/ StreamCallFails \/ StreamReturn
    \/ Backend
    \/ Mux
    \/ ConsumerRecvErr

Spec == Init /\ [][Next]_vars

\* The Go scheduler runs every goroutine that can take a step, a select
\* whose case stays ready eventually takes it, and timers and receives
\* return; the caller is not obliged to cancel and a deadline need not
\* expire.
Fairness ==
    /\ WF_vars(StreamReturn)
    /\ WF_vars(MockLoop) /\ WF_vars(MockDelayElapsed) /\ WF_vars(MockCtxDone)
    /\ WF_vars(OpenAIRecv)
    /\ WF_vars(BackendCloseErrs) /\ WF_vars(BackendCloseContent)
    /\ WF_vars(PortCloseContent) /\ WF_vars(PortCloseErrs)
    /\ WF_vars(MuxCtxDone) /\ WF_vars(MuxRecvContent)
    /\ WF_vars(MuxContentClosed) /\ WF_vars(MuxRecvErr)
    /\ WF_vars(MuxSendContent) /\ WF_vars(MuxSendCtxDone)
    /\ WF_vars(MuxSendDone)
    /\ WF_vars(ConsumerRecvErr)

FairSpec == Spec /\ Fairness

\* No Stream call is made.
StreamOff ==
    /\ callPc = "off"
    /\ kind = "mock" /\ errorsQ = FALSE /\ ntok = 0 /\ delay = FALSE
    /\ bpc = "idle" /\ bsent = 0 /\ bputErr = Nil
    /\ contentOffer = 0 /\ contentClosed = FALSE
    /\ errBuf = <<>> /\ errOffer = Nil /\ errClosed = FALSE
    /\ mpc = "idle" /\ held = <<>> /\ errQ = <<>> /\ closed = FALSE
    /\ cmode = "all"
    /\ log = <<>>

\* One Run call: the Generator has a custom backend or none, the
\* credential is in the environment or not, the template executes on the
\* input or not.
RunInit ==
    /\ GenInit
    /\ StreamOff
    /\ provider \in {"nil", "custom"} /\ envKey \in BOOLEAN /\ tmplOk \in BOOLEAN
    /\ runPc = "Configuring" /\ runTrace = <<>>
    /\ runPrompt = <<>> /\ runResp = <<>> /\ runOut = ZeroO /\ runErr = Nil
    /\ runErrMessage = <<>>
    /\ completeCalls = 0 /\ callRet = [resp |-> <<>>, err |-> Nil]
    /\ beforeRan = <<>> /\ backendPrompt = <<>> /\ streamErr = Nil
    /\ afterRan = <<>>

RunNext ==
    \/ CallerCancel \/ CallerDeadline \/ TimeoutExpire
    \/ RunConfigure \/ RunRender \/ RunWrap \/ RunBefore
    \/ RunCall \/ RunCallReturns
    \/ RunAfter \/ RunParse \/ RunValidate

RunSpec == RunInit /\ [][RunNext]_vars

\* One call on the Generator, a Run or a Stream.
CallInit == Init \/ RunInit

CallNext == Next \/ RunNext

CallSpec == CallInit /\ [][CallNext]_vars

\* No call is made on the Generator, which has a custom backend.
NoCall ==
    /\ TimeOff
    /\ ConcOff
    /\ StreamOff
    /\ RunOff
    /\ ctxErr = Nil /\ ctxCause = "none"
    /\ provider = "custom" /\ envKey = FALSE
    /\ hooks = <<>> /\ timeout = FALSE

\* fmt.Errorf("wrapped: %w", err)
GenericWrap(err) == Wrap("wrapped", err)

\* &Error{Err: err, Code: "test_code"}, whose Unwrap returns err
ErrorOf(err) == Wrap("test_code", err)

\* The errors that carry no other error: nil, the sentinels of the package,
\* a sentinel of the provider package and one of the context package.
BaseErrors == {Nil, ErrInvalidResponse, ErrValidation, ErrConfiguration,
               ErrTimeout, ErrRateLimit, ErrContextLength,
               ProviderErrRateLimit, DeadlineExceeded}

\* The base errors under at most n wrappers, generic or *Error, in any mix.
RECURSIVE Chains(_)
Chains(n) ==
    IF n = 0
    THEN BaseErrors
    ELSE Chains(n - 1) \cup {GenericWrap(e) : e \in Chains(n - 1)}
                       \cup {ErrorOf(e) : e \in Chains(n - 1)}

\* IsValidation(err), IsTimeout(err), IsRateLimit(err), IsContextLength(err)
ApplyPredicates ==
    /\ ~predOut.applied
    /\ predOut' = [applied |-> TRUE,
                   validation |-> IsValidation(predErr),
                   timeout |-> IsTimeout(predErr),
                   rateLimit |-> IsRateLimit(predErr),
                   contextLength |-> IsContextLength(predErr)]
    /\ UNCHANGED <<streamVars, runVars, callVars, genVars, predErr, boolText,
                   boolOut, afterRan, timeVars, concVars>>

\* The four predicates applied to one error.
PredInit ==
    /\ NoCall
    /\ otype = "struct" /\ handler = "JSON" /\ created = "yes"
    /\ predErr \in Chains(MaxWraps) /\ predOut = NoAnswers
    /\ boolText = <<>> /\ boolOut = NoParse

PredNext == ApplyPredicates

PredSpec == PredInit /\ [][PredNext]_vars

\* ---- the boolean strategy. A text is the sequence of its characters.
\* unicode.IsSpace, on the characters of the model
IsSpace(c) == c \in {" ", "\t", "\n", "\r"}

RECURSIVE TrimLeft(_)
TrimLeft(t) ==
    IF t # <<>> /\ IsSpace(Head(t)) THEN TrimLeft(Tail(t)) ELSE t

RECURSIVE TrimRight(_)
TrimRight(t) ==
    IF t # <<>> /\ IsSpace(t[Len(t)])
    THEN TrimRight(SubSeq(t, 1, Len(t) - 1))
    ELSE t

\* strings.TrimSpace
TrimSpace_LeftOnly(t) == TrimLeft(t)

TrimSpace(t) == TrimRight(TrimLeft(t))

Uppers == <<"A", "B", "C", "D", "E", "F", "G", "H", "I", "J", "K", "L", "M",
            "N", "O", "P", "Q", "R", "S", "T", "U", "V", "W", "X", "Y", "Z">>

Lowers == <<"a", "b", "c", "d", "e", "f", "g", "h", "i", "j", "k", "l", "m",
            "n", "o", "p", "q", "r", "s", "t", "u", "v", "w", "x", "y", "z">>

ToLowerChar(c) ==
    IF \E i \in 1..Len(Uppers) : Uppers[i] = c
    THEN Lowers[CHOOSE i \in 1..Len(Uppers) : Uppers[i] = c]
    ELSE c

\* strings.ToLower
ToLower(t) == [i \in 1..Len(t) |-> ToLowerChar(t[i])]

\* strconv.ParseBool: the literals it accepts, and the error otherwise
ParseBool(t) ==
    CASE t \in {<<"1">>, <<"t">>, <<"T">>, <<"T", "R", "U", "E">>,
                <<"t", "r", "u", "e">>, <<"T", "r", "u", "e">>}
           -> [value |-> TRUE, ok |-> TRUE]
      [] t \in {<<"0">>, <<"f">>, <<"F">>, <<"F", "A", "L", "S", "E">>,
                <<"f", "a", "l", "s", "e">>, <<"F", "a", "l", "s", "e">>}
           -> [value |-> FALSE, ok |-> TRUE]
      [] OTHER -> [value |-> FALSE, ok |-> FALSE]

\* fmt.Errorf("failed to parse boolean from: %s", response)
ParseFailure(response) == <<"failed to parse boolean from: ", response>>

\* Bool[bool].Parse(response): the value and the error
BoolParse(response) ==
    LET cleaned == ToLower(TrimSpace(response))
    IN  CASE cleaned \in {<<"t", "r", "u", "e">>, <<"y", "e", "s">>, <<"1">>}
               -> [value |-> TRUE, err |-> Nil]
          [] cleaned \in {<<"f", "a", "l", "s", "e">>, <<"n", "o">>, <<"0">>}
               -> [value |-> FALSE, err |-> Nil]
          [] OTHER
               -> IF ParseBool(cleaned).ok
                  THEN [value |-> ParseBool(cleaned).value, err |-> Nil]
                  ELSE [value |-> FALSE, err |-> ParseFailure(response)]

\* The responses given to Parse: a word in some spelling, with white space
\* before and after it.
TrueWords == {<<"t", "r", "u", "e">>, <<"T", "R", "U", "E">>,
              <<"T", "r", "u", "e">>,
              <<"y", "e", "s">>, <<"Y", "E", "S">>, <<"Y", "e", "s">>,
              <<"1">>}

FalseWords == {<<"f", "a", "l", "s", "e">>, <<"F", "A", "L", "S", "E">>,
               <<"F", "a", "l", "s", "e">>,
               <<"n", "o">>, <<"N", "O">>, <<"N", "o">>,
               <<"0">>}

\* The literals only strconv.ParseBool knows.
LiteralWords == {<<"t">>, <<"F">>}

OtherWords == {<<>>, <<"4", "2">>, <<"2">>, <<"1", "0">>,
               <<"m", "a", "y", "b", "e">>,
               <<"n", "o", "t", " ", "a", " ", "b", "o", "o", "l">>,
               <<"t", "r", " ", "u", "e">>, <<"t", "r", "u", "e", "e">>,
               <<"y">>, <<"o", "n">>}

LeftPads == {<<>>, <<" ">>, <<"\t">>, <<" ", " ">>}

RightPads == {<<>>, <<" ">>, <<"\n">>}

Padded(W) == {l \o w \o r : l \in LeftPads, w \in W, r \in RightPads}

Responses == Padded(TrueWords \cup FalseWords \cup LiteralWords \cup OtherWords)

\* h.Parse(response)
ApplyBoolParse ==
    /\ ~boolOut.applied
    /\ boolOut' = [applied |-> TRUE, value |-> BoolParse(boolText).value,
                   err |-> BoolParse(boolText).err]
    /\ UNCHANGED <<streamVars, runVars, callVars, genVars, predErr, predOut,
                   boolText, afterRan, timeVars, concVars>>

\* Parse of the boolean strategy applied to one response.
BoolInit ==
    /\ NoCall
    /\ otype = "bool" /\ handler = "Bool" /\ created = "yes"
    /\ predErr = Nil /\ predOut = NoAnswers
    /\ boolText \in Responses /\ boolOut = NoParse

BoolNext == ApplyBoolParse

BoolSpec == BoolInit /\ [][BoolNext]_vars

\* ---- a Run call on a clock. Instants are ticks from 1 on; 0 stands for
\* "no deadline".
\* context.WithDeadline(parent, d): a parent whose deadline is before d
\* keeps its own; otherwise the deadline is d.
WithDeadline_Override(parentDl, d) == d

WithDeadline(parentDl, d) ==
    IF parentDl # 0 /\ parentDl < d THEN parentDl ELSE d

\* context.WithTimeout(parent, timeout) at the instant t
WithTimeout_(parentDl, t, dur) == WithDeadline(parentDl, t + dur)

\* The context's deadline has arrived and its timer has not fired yet.
ExpiryDue == tpc = "running" /\ govDl # 0 /\ now >= govDl

otherVars == <<streamVars, runVars, callVars, genVars, pureVars, afterRan,
               concVars>>

\* Time passes; a timer that is due fires first.
TimedTick ==
    /\ tpc \in {"before", "running"}
    /\ ~ExpiryDue
    /\ now < MaxTime + MaxDur
    /\ now' = now + 1
    /\ UNCHANGED <<otherVars, callerDl, tmoDur, startAt, govDl, expiredAt, tpc>>

\* if g.timeout > 0 { ctx, cancel = context.WithTimeout(ctx, g.timeout) }
TimedStart ==
    /\ tpc = "before"
    /\ startAt' = now
    /\ govDl' = IF tmoDur > 0 THEN WithTimeout_(callerDl, now, tmoDur)
                ELSE callerDl
    /\ tpc' = "running"
    /\ UNCHANGED <<otherVars, now, callerDl, tmoDur, expiredAt>>

\* ctx.Done() of the governing context is closed by its deadline.
TimedExpire ==
    /\ ExpiryDue
    /\ expiredAt' = now
    /\ tpc' = "expired"
    /\ UNCHANGED <<otherVars, now, callerDl, tmoDur, startAt, govDl>>

\* Run returns before its context expired.
TimedReturn ==
    /\ tpc = "running"
    /\ tpc' = "returned"
    /\ UNCHANGED <<otherVars, now, callerDl, tmoDur, startAt, govDl, expiredAt>>

\* One Run call on a clock: the caller's context has a deadline or none,
\* the Generator a timeout or none, and the call starts at any instant.
TimedInit ==
    /\ ConcOff
    /\ StreamOff
    /\ RunOff
    /\ ctxErr = Nil /\ ctxCause = "none"
    /\ provider = "custom" /\ envKey = FALSE
    /\ otype = "struct" /\ handler = "JSON" /\ created = "yes"
    /\ predErr = Nil /\ predOut = NoAnswers
    /\ boolText = <<>> /\ boolOut = NoParse
    /\ hooks = <<>>
    /\ now = 1
    /\ callerDl \in 0..MaxTime
    /\ tmoDur \in 0..MaxDur
    /\ timeout = (tmoDur > 0)
    /\ startAt = 0 /\ govDl = 0 /\ expiredAt = 0
    /\ tpc = "before"

TimedNext == TimedTick \/ TimedStart \/ TimedExpire \/ TimedReturn

TimedSpec == TimedInit /\ [][TimedNext]_vars

\* The construction of a Generator: Create, then the With* methods in any
\* order, any number of times.
BuildInit ==
    /\ PureOff
    /\ StreamOff
    /\ RunOff
    /\ ctxErr = Nil /\ ctxCause = "none"
    /\ otype \in OTypes /\ handler = "none" /\ created = "no"
    /\ provider = "nil" /\ envKey = FALSE
    /\ hooks = <<>> /\ timeout = FALSE

BuildNext ==
    \/ Create
    \/ \E p \in {"custom", "nil"} : WithProvider(p)
    \/ \E k \in HookKinds : WithHook(k)
    \/ \E t \in BOOLEAN : WithTimeout(t)
    \/ \E h \in {"custom"} : WithHandler(h)

BuildSpec == BuildInit /\ [][BuildNext]_vars

\* ------------------------------------------------- concurrent callers
\* The calls that are in flight at once.
Callers == 1..MaxCallers

\* What a call on a Generator with no backend leaves as it is.
lazyRest == <<streamVars, runLocals, callVars, genVars, pureVars, afterRan,
              timeVars, mockVars>>

\* if g.provider == nil
LazyCheck(c) ==
    /\ lazyPc[c] = "check"
    /\ IF gInst = 0
       THEN /\ lazyPc' = [lazyPc EXCEPT ![c] = "create"]
            /\ UNCHANGED lazySeen
       ELSE /\ lazyPc' = [lazyPc EXCEPT ![c] = "use"]
            /\ lazySeen' = [lazySeen EXCEPT ![c] = gInst]
    /\ UNCHANGED <<lazyRest, provider, gInst, gWrites, made, lazyOp, lazyUsed>>

\* defaultProvider, err := provider.DefaultOpenAI(): a new instance, or an
\* error when the environment holds no credential.
LazyCreate(c) ==
    /\ lazyPc[c] = "create"
    /\ IF envKey
       THEN /\ made' = made + 1
            /\ lazySeen' = [lazySeen EXCEPT ![c] = made + 1]
            /\ lazyPc' = [lazyPc EXCEPT ![c] = "write"]
       ELSE /\ lazyPc' = [lazyPc EXCEPT ![c] = "failed"]
            /\ UNCHANGED <<made, lazySeen>>
    /\ UNCHANGED <<lazyRest, provider, gInst, gWrites, lazyOp, lazyUsed>>

\* g.provider = defaultProvider
LazyWrite(c) ==
    /\ lazyPc[c] = "write"
    /\ gInst' = lazySeen[c]
    /\ gWrites' = Append(gWrites, lazySeen[c])
    /\ provider' = "default"
    /\ lazyPc' = [lazyPc EXCEPT ![c] = "use"]
    /\ UNCHANGED <<lazyRest, made, lazyOp, lazySeen, lazyUsed>>

\* g.provider.Complete(ctx, prompt) in Run, g.provider.Stream(ctx, prompt)
\* in Stream: the call reads the field again.
LazyUse(c) ==
    /\ lazyPc[c] = "use"
    /\ lazyUsed' = [lazyUsed EXCEPT ![c] = gInst]
    /\ lazyPc' = [lazyPc EXCEPT ![c] = "called"]
    /\ UNCHANGED <<lazyRest, provider, gInst, gWrites, made, lazyOp, lazySeen>>

\* Run and Stream calls started together on a Generator created without
\* WithProvider.
LazyInit ==
    /\ TimeOff
    /\ StreamOff
    /\ RunOff
    /\ ctxErr = Nil /\ ctxCause = "none"
    /\ otype = "struct" /\ handler = "JSON" /\ created = "yes"
    /\ predErr = Nil /\ predOut = NoAnswers
    /\ boolText = <<>> /\ boolOut = NoParse
    /\ hooks = <<>> /\ timeout = FALSE
    /\ provider = "nil" /\ envKey \in BOOLEAN
    /\ gInst = 0 /\ gWrites = <<>> /\ made = 0
    /\ lazyOp \in [Callers -> {"Run", "Stream"}]
    /\ lazyPc = [c \in Callers |-> "check"]
    /\ lazySeen = [c \in Callers |-> 0]
    /\ lazyUsed = [c \in Callers |-> 0]
    /\ mMu = 0 /\ mPrompts = <<>> /\ mErrors = <<>> /\ mQueued = <<>>
    /\ mockOp = <<>> /\ mockPc = <<>> /\ mockSlice = <<>>
    /\ mockErr = <<>> /\ mockRet = <<>>

LazyNext ==
    \E c \in Callers :
       \/ LazyCheck(c)
       \/ LazyCreate(c)
       \/ LazyWrite(c)
       \/ LazyUse(c)

LazySpec == LazyInit /\ [][LazyNext]_vars

\* What a call on the MockProvider leaves as it is.
mockRest == <<streamVars, runVars, callVars, genVars, pureVars, afterRan,
              timeVars, lazyVars>>

\* m.mu.Lock()
MockLock(c) ==
    /\ mockPc[c] = "lock"
    /\ mMu = 0
    /\ mMu' = c
    /\ mockPc' = [mockPc EXCEPT ![c] = "append"]
    /\ UNCHANGED <<mockRest, mPrompts, mErrors, mQueued, mockOp, mockSlice,
                   mockErr, mockRet>>

\* append(m.Prompts, prompt): the slice is read
MockAppend(c) ==
    /\ mockPc[c] = "append"
    /\ mockSlice' = [mockSlice EXCEPT ![c] = mPrompts]
    /\ mockPc' = [mockPc EXCEPT ![c] = "store"]
    /\ UNCHANGED <<mockRest, mMu, mPrompts, mErrors, mQueued, mockOp,
                   mockErr, mockRet>>

\* m.Prompts = append(...): the longer slice is stored
MockStore(c) ==
    /\ mockPc[c] = "store"
    /\ mPrompts' = Append(mockSlice[c], c)
    /\ mockPc' = [mockPc EXCEPT ![c] = "unlock"]
    /\ UNCHANGED <<mockRest, mMu, mErrors, mQueued, mockOp, mockSlice,
                   mockErr, mockRet>>

\* m.mu.Unlock()
MockUnlock(c) ==
    /\ mockPc[c] = "unlock"
    /\ mMu' = 0
    /\ mockPc' = [mockPc EXCEPT ![c] = "len"]
    /\ UNCHANGED <<mockRest, mPrompts, mErrors, mQueued, mockOp, mockSlice,
                   mockErr, mockRet>>

\* if len(m.Errors) > 0; with no error queued the call goes on to its
\* response and returns no error.
MockLen(c) ==
    /\ mockPc[c] = "len"
    /\ mockPc' = [mockPc EXCEPT ![c] = IF Len(mErrors) > 0 THEN "head"
                                       ELSE "returned"]
    /\ UNCHANGED <<mockRest, mMu, mPrompts, mErrors, mQueued, mockOp,
                   mockSlice, mockErr, mockRet>>

\* err := m.Errors[0]; the index is out of range when the queue has been
\* emptied meanwhile.
MockHead(c) ==
    /\ mockPc[c] = "head"
    /\ IF mErrors = <<>>
       THEN /\ mockPc' = [mockPc EXCEPT ![c] = "panicked"]
            /\ UNCHANGED mockErr
       ELSE /\ mockErr' = [mockErr EXCEPT ![c] = Head(mErrors)]
            /\ mockPc' = [mockPc EXCEPT ![c] = "tail"]
    /\ UNCHANGED <<mockRest, mMu, mPrompts, mErrors, mQueued, mockOp,
                   mockSlice, mockRet>>

\* m.Errors[1:]: the slice is read
MockTail(c) ==
    /\ mockPc[c] = "tail"
    /\ IF mErrors = <<>>
       THEN /\ mockPc' = [mockPc EXCEPT ![c] = "panicked"]
            /\ UNCHANGED mockSlice
       ELSE /\ mockSlice' = [mockSlice EXCEPT ![c] = Tail(mErrors)]
            /\ mockPc' = [mockPc EXCEPT ![c] = "assign"]
    /\ UNCHANGED <<mockRest, mMu, mPrompts, mErrors, mQueued, mockOp,
                   mockErr, mockRet>>

\* m.Errors = m.Errors[1:]: the shorter slice is stored
MockAssign(c) ==
    /\ mockPc[c] = "assign"
    /\ mErrors' = mockSlice[c]
    /\ mockPc' = [mockPc EXCEPT ![c] = "return"]
    /\ UNCHANGED <<mockRest, mMu, mPrompts, mQueued, mockOp, mockSlice,
                   mockErr, mockRet>>

\* return "", err in Complete; close(content); errs <- err; close(errs);
\* return in Stream
MockReturn(c) ==
    /\ mockPc[c] = "return"
    /\ mockRet' = [mockRet EXCEPT ![c] = mockErr[c]]
    /\ mockPc' = [mockPc EXCEPT ![c] = "returned"]
    /\ UNCHANGED <<mockRest, mMu, mPrompts, mErrors, mQueued, mockOp,
                   mockSlice, mockErr>>

\* The queues a test gives the mock: the errors 1..n in order.
ErrorQueues == {[i \in 1..n |-> i] : n \in 0..MaxErrs}

\* Complete and Stream calls started together on one MockProvider.
MockInit ==
    /\ TimeOff
    /\ StreamOff
    /\ RunOff
    /\ ctxErr = Nil /\ ctxCause = "none"
    /\ otype = "struct" /\ handler = "JSON" /\ created = "yes"
    /\ predErr = Nil /\ predOut = NoAnswers
    /\ boolText = <<>> /\ boolOut = NoParse
    /\ hooks = <<>> /\ timeout = FALSE
    /\ provider = "custom" /\ envKey = FALSE
    /\ gInst = 0 /\ gWrites = <<>> /\ made = 0
    /\ lazyOp = <<>> /\ lazyPc = <<>> /\ lazySeen = <<>> /\ lazyUsed = <<>>
    /\ mMu = 0 /\ mPrompts = <<>>
    /\ mQueued \in ErrorQueues
    /\ mErrors = mQueued
    /\ mockOp \in [Callers -> {"Complete", "Stream"}]
    /\ mockPc = [c \in Callers |-> "lock"]
    /\ mockSlice = [c \in Callers |-> <<>>]
    /\ mockErr = [c \in Callers |-> 0]
    /\ mockRet = [c \in Callers |-> 0]

MockNext ==
    \E c \in Callers :
       \/ MockLock(c)
       \/ MockAppend(c)
       \/ MockStore(c)
       \/ MockUnlock(c)
       \/ MockLen(c)
       \/ MockHead(c)
       \/ MockTail(c)
       \/ MockAssign(c)
       \/ MockReturn(c)

MockSpec == MockInit /\ [][MockNext]_vars

\* ------------------------------------------------------------- observations
\* The positions of the terminal signals (a value sent on Err or on Done)
\* among what the multiplexer has sent.
Terminals == {i \in 1..Len(log) : log[i].ch # "Content"}

\* The multiplexer has sent its terminal signal and is returning.
MuxTerminated == mpc = "exited"

\* What the hooks make of the k-th token.
Processed(k) == RunAfterHooks(hooks, Token(k))

\* No hook fails on any of the first k tokens.
HooksPass(k) == \A j \in 1..k : Processed(j).err = Nil

\* The first k tokens, as published, in order.
ContentEntries(k) ==
    [j \in 1..k |-> [ch |-> "Content", v |-> Processed(j).content, late |-> FALSE]]

\* ------------------------------------------------------------- claims
\* C1: a Stream whose multiplexer has terminated has sent exactly one value
\* in total on Err and Done, whatever the backend, the hooks, the consumer
\* and the cancellation did; before that it has sent none, and the signal
\* is the last thing it sent.
C1_ExactlyOneTerminal ==
    /\ Cardinality(Terminals) <= 1
    /\ MuxTerminated <=> Cardinality(Terminals) = 1
    /\ MuxTerminated => Terminals = {Len(log)}

\* C1 witness: a multiplexer that published tokens and then sent an error
\* has exited.
C1_Witness ==
    /\ mpc = "exited"
    /\ Len(log) >= 2
    /\ log[Len(log)].ch = "Err"

\* C2 (as claimed): with no hooks, a live context and a consumer receiving
\* from all outputs, a repository backend that emitted n tokens and ended
\* without putting an error makes the multiplexer send exactly those n
\* tokens in order on Content, then a completion signal on Done, and
\* nothing on Err.
C2_StreamingOrdering ==
    ( /\ kind \in {"mock", "openai"}
      /\ hooks = <<>> /\ cmode = "all" /\ ctxErr = Nil
      /\ bpc = "done" /\ bputErr = Nil
      /\ mpc = "exited" )
    => log = ContentEntries(bsent) \o <<[ch |-> "Done", v |-> Nil, late |-> FALSE]>>

C4_CancellationWins ==
    kind \in {"mock", "openai"}
    => \A i \in 1..Len(log) : log[i].ch = "Content" => ~log[i].late

\* C5 (as claimed, on the repository's backends): a terminal signal sent
\* after the context has ended is the context's error on Err.
C5_CancellationOutcome ==
    kind \in {"mock", "openai"}
    => \A i \in Terminals :
          log[i].late => (log[i].ch = "Err" /\ log[i].v = ctxErr)

C9_TimeoutContext ==
    (timeout /\ ctxErr # Nil) => ctxCause \in {"caller", "deadline", "timeout"}

\* C6 (as claimed): every multiplexer run whose consumer iterates Content
\* eventually closes the three outputs, also when the consumer never
\* receives from Done or Err.
C6_OutputsClosed ==
    (mpc # "idle" /\ WantsContent) ~> closed

\* C7: with a consumer that never receives from Content, a multiplexer
\* blocked publishing a token when the context has ended sends the
\* context's error on Err and closes the outputs; and whatever it was doing
\* when the context ended, it terminates.
C7_UnblockedOnExpiry ==
    /\ (cmode = "errDoneOnly" /\ mpc = "send" /\ ctxErr # Nil)
          ~> (closed /\ log[Len(log)] = [ch |-> "Err", v |-> ctxErr, late |-> TRUE])
    /\ (cmode = "errDoneOnly" /\ mpc # "idle" /\ ctxErr # Nil) ~> closed

\* C7 witness: a token was received from the backend and never published;
\* the context's error is the terminal signal and the outputs are closed.
C7_Witness ==
    /\ cmode = "errDoneOnly" /\ closed
    /\ bsent >= 1
    /\ log = <<[ch |-> "Err", v |-> ctxErr, late |-> TRUE]>>

\* C10: the stages of one Run call run in the order Configuring, Rendering,
\* Wrapping, BeforeHooks, Calling, AfterHooks, Parsing, Validating, each at
\* most once and none skipped; a stage that fails ends the call with its
\* error and nothing runs after it; Done is reached only through all eight
\* stages; Complete is invoked once by the Calling stage and never again.
C10_StagesInOrder ==
    /\ Len(runTrace) <= Len(StageOrder)
    /\ runTrace = SubSeq(StageOrder, 1, Len(runTrace))
    /\ completeCalls = Cardinality({i \in 1..Len(runTrace) : runTrace[i] = "Calling"})
    /\ completeCalls <= 1
    /\ runErr # Nil <=> runPc = "Failed"
    /\ runPc = "Done" => runTrace = StageOrder
    /\ runPc \notin {"Done", "Failed", "InCall", "off"}
          => runPc = StageOrder[Len(runTrace) + 1]
    /\ runPc = "InCall" => runTrace[Len(runTrace)] = "Calling"

\* C10 witness: a call with two hooks went through every stage and is done.
C10_Witness ==
    /\ runPc = "Done"
    /\ Len(hooks) = 2
    /\ completeCalls = 1

\* The last stage a Run call entered.
LastStage == IF runTrace = <<>> THEN "none" ELSE runTrace[Len(runTrace)]

\* C11: when the timer of the configured timeout has fired by the time
\* Complete returns, Run ends there with an error for which IsTimeout holds
\* and with the zero value of O, whether Complete returned an error or a
\* reply (a backend that ignored the context); no later stage runs.
C11_TimeoutProperty ==
    [][ (runPc = "InCall" /\ runPc' # "InCall" /\ ctxCause = "timeout")
        => (/\ runPc' = "Failed"
            /\ IsTimeout(runErr')
            /\ runOut' = ZeroO
            /\ runTrace' = runTrace) ]_vars

\* C11 witness: the backend returned a valid reply after the timeout had
\* expired; Run returned the timeout error and the zero value.
C11_Witness ==
    /\ timeout /\ ctxCause = "timeout"
    /\ callRet = [resp |-> <<Json(Doc("fits", "fits"))>>, err |-> Nil]
    /\ runPc = "Failed" /\ runErr = ErrTimeout
    /\ runOut = ZeroO
    /\ LastStage = "Calling"

Positions(n) == [i \in 1..n |-> i]

\* The position of the first hook whose BeforeRequest fails (0: none).
FirstFailingBefore ==
    IF \E k \in 1..Len(hooks) : hooks[k] = "R"
    THEN CHOOSE k \in 1..Len(hooks) :
            hooks[k] = "R" /\ \A j \in 1..(k - 1) : hooks[j] # "R"
    ELSE 0

\* C13: when a BeforeRequest hook fails, a Run that reached its hooks and a
\* Stream that was called and had or obtained a backend end with an error
\* that wraps the hook's; the hooks before the failing one and the failing
\* one were invoked, in order, and none after it; the backend's Complete or
\* Stream was not invoked (no prompt was handed to it, no producer and no
\* multiplexer was started).
C13_BeforeHookAborts ==
    FirstFailingBefore # 0 =>
       /\ "BeforeHooks" \in {runTrace[i] : i \in 1..Len(runTrace)}
          => /\ runPc = "Failed" /\ LastStage = "BeforeHooks"
             /\ runErr = Wrap("hook error", HookFailure)
             /\ beforeRan = Positions(FirstFailingBefore)
             /\ completeCalls = 0 /\ backendPrompt = <<>>
       /\ (callPc \notin {"idle", "off"} /\ provider # "nil")
          => /\ callPc = "failed"
             /\ streamErr = Wrap("hook error", HookFailure)
             /\ beforeRan = Positions(FirstFailingBefore)
             /\ backendPrompt = <<>>
             /\ bpc = "idle" /\ mpc = "idle"

\* C13 witness: the first of two hooks failed in a Run; the second never
\* ran and Complete was not called.
C13_Witness ==
    /\ hooks = <<"R", "A">>
    /\ runPc = "Failed" /\ LastStage = "BeforeHooks"
    /\ beforeRan = <<1>>
    /\ completeCalls = 0

\* The stages a Run call has entered.
StagesRun == {runTrace[i] : i \in 1..Len(runTrace)}

\* C14: when Complete returned an error, Run has returned: it failed at the
\* Calling stage with an error, and no AfterResponse hook ran, nothing was
\* parsed and nothing was validated.
C14_NoStageAfterFailedCompletion ==
    callRet.err # Nil =>
       /\ runPc = "Failed" /\ runErr # Nil
       /\ LastStage = "Calling"
       /\ StagesRun \cap {"AfterHooks", "Parsing", "Validating"} = {}
       /\ runResp = <<>> /\ runOut = ZeroO

\* C14 witness: Complete returned the queued error to a Generator with two
\* hooks; Run returned it.
C14_Witness ==
    /\ Len(hooks) = 2
    /\ callRet.err = StreamError
    /\ runPc = "Failed" /\ runErr = StreamError
    /\ LastStage = "Calling"

\* The mark a hook leaves on a prompt and on a response ("R" leaves none).
MarkOf(h) == IF h = "A" THEN 7 ELSE IF h = "F" THEN 8 ELSE 0

\* The prompt the backend is to receive: the wrapped prompt behind the
\* marks of the hooks, the mark of the last hook outermost.
ExpectedPrompt ==
    [i \in 1..Len(hooks) |-> MarkOf(hooks[Len(hooks) + 1 - i])]
        \o WrapPrompt(Rendered)

\* C15: when the backend's Complete or Stream is invoked, every hook's
\* BeforeRequest has run, in registration order, each on the prompt the
\* previous one returned, and the prompt handed to the backend is the one
\* the last hook returned; in Run and in Stream alike.
C15_BeforeHooksInOrder ==
    backendPrompt # <<>> =>
       /\ beforeRan = Positions(Len(hooks))
       /\ backendPrompt = ExpectedPrompt

\* C15 witness: a Stream call with the hooks A then F started the backend
\* with the prompt that carries F's mark outside A's.
C15_Witness ==
    /\ hooks = <<"A", "F">>
    /\ callPc = "spawned"
    /\ beforeRan = <<1, 2>>
    /\ backendPrompt = <<8, 7>> \o WrapPrompt(Rendered)

\* The marks the hooks' AfterResponse leave on a token, in registration
\* order.
IsMark(seg) == seg.c # 0
AfterMarks == SelectSeq([i \in 1..Len(hooks) |-> Chr(MarkOf(hooks[i]))], IsMark)

\* The k-th token as the consumer is to see it.
ExpectedToken(k) == <<Chr(k)>> \o AfterMarks

\* Some hook's AfterResponse fails on the k-th token.
HookFailsOn(k) == k = 2 /\ \E i \in 1..Len(hooks) : hooks[i] = "F"

\* C16: every token the multiplexer published is the backend's token with
\* every hook's AfterResponse applied in registration order; a token on
\* which a hook failed is not published: "hook error" wrapping the hook's
\* error is sent on Err as the terminal signal and the multiplexer
\* terminates, receiving no further token.
C16_TokenHooks ==
    /\ \A i \in 1..Len(log) :
          log[i].ch = "Content"
          => (log[i].v = ExpectedToken(i) /\ ~HookFailsOn(i))
    /\ \A k \in 1..bsent :
          HookFailsOn(k)
          => /\ MuxTerminated /\ closed
             /\ bsent = k /\ held = <<>>
             /\ Len(log) = k
             /\ log[k].ch = "Err"
             /\ log[k].v = Wrap("hook error", HookFailure)

\* C16 witness: with the hooks A then F the first token was published with
\* both marks, the second made F fail and the error is the terminal signal.
C16_Witness ==
    /\ hooks = <<"A", "F">>
    /\ bsent = 2 /\ mpc = "exited"
    /\ log = <<[ch |-> "Content", v |-> <<Chr(1), Chr(7), Chr(8)>>, late |-> FALSE],
               [ch |-> "Err", v |-> Wrap("hook error", HookFailure), late |-> FALSE]>>

\* The reply is the JSON object d alone, or d in a fenced block after prose.
Carries(text, d) == text \in {<<Json(d)>>, <<Chr(1), Fence, Json(d), Fence>>}

\* Every key of d holds a string (the object decodes into O).
Decodes(d) == d.title # "number"

\* The value of O the JSON object d stands for.
ValueOf(d) ==
    Doc(IF d.title = "absent" THEN "empty" ELSE d.title,
        IF d.description = "absent" THEN "empty" ELSE d.description)

\* The value meets every bound O declares.
MeetsBounds(o) == o.title # "long" /\ o.description = "fits"

\* C17: with no hooks and a context that has not ended, a Run whose backend
\* replied with a JSON object (alone or fenced) that decodes to a value
\* meeting O's bounds has moved through Parsing and Validating to Done,
\* and returns that value and a nil error.
C17_Success ==
    \A d \in Docs :
       ( /\ hooks = <<>> /\ ctxErr = Nil
         /\ callRet.err = Nil /\ Carries(callRet.resp, d)
         /\ Decodes(d) /\ MeetsBounds(ValueOf(d))
         /\ runPc \in {"Done", "Failed"} )
       => (runPc = "Done" /\ runOut = ValueOf(d) /\ runErr = Nil)

\* C17 witness: the reply was the bare JSON object, with no fenced block.
C17_Witness ==
    /\ hooks = <<>> /\ ctxErr = Nil
    /\ callRet = [resp |-> <<Json(Doc("fits", "fits"))>>, err |-> Nil]
    /\ runPc = "Done" /\ runOut = Doc("fits", "fits") /\ runErr = Nil

\* The text holds a fenced block: an opening and a closing fence.
HasFencedBlock(text) ==
    \E i, j \in 1..Len(text) : i < j /\ text[i] = Fence /\ text[j] = Fence

\* The text as a whole is one JSON value.
IsRawJson(text) == Len(text) = 1 /\ text[1].t = "json"

\* C18: a reply with no fenced block that is not JSON as raw text, once the
\* after hooks have passed it on, makes Run fail at Parsing with an error
\* for which errors.Is(err, ErrInvalidResponse) holds; Validate is not run.
C18_InvalidResponse ==
    ( /\ callRet.err = Nil /\ callRet.resp # <<>>
      /\ ~HasFencedBlock(callRet.resp) /\ ~IsRawJson(callRet.resp)
      /\ "Parsing" \in StagesRun )
    => /\ runPc = "Failed" /\ LastStage = "Parsing"
       /\ Is(runErr, ErrInvalidResponse)
       /\ "Validating" \notin StagesRun

\* C18 witness: the reply was prose ("not a json response").
C18_Witness ==
    /\ callRet = [resp |-> <<Chr(2)>>, err |-> Nil]
    /\ hooks = <<>>
    /\ runPc = "Failed" /\ LastStage = "Parsing"
    /\ runErr = Wrap("parse_failed", ErrInvalidResponse)

\* The descriptions of the bounds of O that the JSON object d violates.
ViolatedBounds(d) ==
    (IF d.title = "long"
     THEN {"title: String length must be less than or equal to 100"} ELSE {})
    \cup
    (IF d.description = "short"
     THEN {"description: String length must be greater than or equal to 100"}
     ELSE {})

C20_RequiredEnforced ==
    \A d \in Docs :
       ( /\ hooks = <<>>
         /\ callRet.err = Nil /\ Carries(callRet.resp, d)
         /\ Decodes(d)
         /\ d.title = "absent" \/ d.description = "absent"
         /\ "Parsing" \in StagesRun
         /\ runPc \in {"Done", "Failed"} )
       => (runPc = "Failed" /\ IsValidation(runErr))

C22_ConfigurationError ==
    (provider = "nil" /\ ~envKey) =>
       /\ runPc \notin {"off", "Configuring"}
          => /\ runPc = "Failed" /\ Is(runErr, ErrConfiguration)
             /\ runTrace = <<"Configuring">>
             /\ beforeRan = <<>> /\ completeCalls = 0 /\ backendPrompt = <<>>
       /\ callPc \notin {"off", "idle"}
          => /\ callPc = "failed" /\ Is(streamErr, ErrConfiguration)
             /\ beforeRan = <<>> /\ backendPrompt = <<>>
             /\ bpc = "idle" /\ mpc = "idle"

\* C23: whenever a backend has been invoked (Complete by a Run, Stream by a
\* Stream call), the Generator's backend field is set, and the invoking call
\* went through a successful ensureDefaultConfig first.
C23_BackendSetBeforeCall ==
    /\ completeCalls > 0
       => /\ provider # "nil"
          /\ Len(runTrace) >= 2 /\ runTrace[1] = "Configuring"
          /\ ~Is(runErr, ErrConfiguration)
    /\ (bpc # "idle" \/ backendPrompt # <<>>)
       => /\ provider # "nil"
          /\ ~(callPc = "failed" /\ Head(streamErr) = "failed to create default provider")

\* C23 witness: a Generator built without a backend, whose default backend
\* was made from the credential and then invoked.
C23_Witness ==
    /\ provider = "default" /\ envKey
    /\ \/ completeCalls > 0
       \/ bpc # "idle"

\* The strategy the type O calls for.
StrategyOf(t) ==
    CASE t = "string" -> "String"
      [] t = "int" -> "Int"
      [] t = "float64" -> "Float"
      [] t = "bool" -> "Bool"
      [] OTHER -> "JSON"

\* C29 (as claimed): Create gives the Generator the strategy O's type calls
\* for, and no later operation on the Generator changes its strategy.
C29_StrategyNeverChanges ==
    [][ /\ (created = "no" /\ created' = "yes") => handler' = StrategyOf(otype)
        /\ created = "yes" => handler' = handler ]_vars

\* C29 (amended): Create gives the Generator the strategy O's type calls
\* for (string: String, int: Int, float64: Float, bool: Bool, every other
\* type: structured JSON), and WithProvider, WithHook and WithTimeout leave
\* it as it is; the only step that changes it is WithHandler, which
\* replaces it by the handler it is given.
C29_StrategyFixed ==
    [][ /\ (created = "no" /\ created' = "yes") => handler' = StrategyOf(otype)
        /\ (created = "yes" /\ handler' # handler)
              => \E h \in {"custom"} : WithHandler(h) ]_vars

\* C29 witness: a Generator for a number type other than int uses the
\* structured JSON strategy after a backend, a hook and a timeout were set.
C29_Witness ==
    /\ created = "yes" /\ otype = "int64" /\ handler = "JSON"
    /\ provider = "custom" /\ hooks # <<>> /\ timeout

C25_CustomBackendKept ==
    [][ (runPc = "Configuring" /\ runPc' # "Configuring")
          => /\ provider = "custom"
                => (provider' = "custom" /\ runPc' = "Rendering")
             /\ (provider = "nil" /\ envKey)
                => (provider' # "nil" /\ runPc' = "Rendering") ]_vars

\* C25 witness: ensureDefaultConfig has returned nil on a Generator with a
\* custom backend while the credential was in the environment.
C25_Witness ==
    /\ runPc = "Rendering" /\ runTrace = <<"Configuring">>
    /\ provider = "custom" /\ envKey

\* The error whose text is m occurs in the chain of err.
Occurs(m, err) == \E i \in 1..Len(err) : err[i] = m

\* C26: each of IsValidation, IsTimeout, IsRateLimit and IsContextLength
\* answers true exactly when its sentinel occurs somewhere in the chain of
\* the error it is given, under any mix of generic and *Error wrappers; all
\* four answer false for nil, and each answers false for an error that
\* carries another sentinel only.
C26_PredicatesFollowChain ==
    predOut.applied =>
       /\ predOut.validation = Occurs("validation failed", predErr)
       /\ predOut.timeout = Occurs("request timeout", predErr)
       /\ predOut.rateLimit = Occurs("rate limit exceeded", predErr)
       /\ predOut.contextLength = Occurs("context length exceeded", predErr)
       /\ predErr = Nil
          => (~predOut.validation /\ ~predOut.timeout /\ ~predOut.rateLimit
              /\ ~predOut.contextLength)

\* C26 witness: the predicates were applied to an *Error over ErrValidation
\* wrapped again by a generic wrapper: IsValidation answered true, the
\* other three false.
C26_Witness ==
    /\ predErr = GenericWrap(ErrorOf(ErrValidation))
    /\ predOut.applied
    /\ predOut.validation /\ ~predOut.timeout /\ ~predOut.rateLimit
    /\ ~predOut.contextLength

\* C30: Parse of the boolean strategy answers true, with no error, for
\* true, yes and 1 in any of their spellings and with white space around
\* them, false for false, no and 0 likewise; for the empty text, free text
\* and other numbers it returns an error, and that error carries the
\* response as it was given.
C30_BoolParse ==
    boolOut.applied =>
       /\ boolText \in Padded(TrueWords)
          => (boolOut.value = TRUE /\ boolOut.err = Nil)
       /\ boolText \in Padded(FalseWords)
          => (boolOut.value = FALSE /\ boolOut.err = Nil)
       /\ boolText \in Padded(OtherWords)
          => /\ boolOut.err # Nil
             /\ boolOut.err[Len(boolOut.err)] = boolText

\* C30 witness: YES between a tab and a line end was parsed to true.
C30_Witness ==
    /\ boolOut.applied
    /\ boolText = <<"\t", "Y", "E", "S", "\n">>
    /\ boolOut.value /\ boolOut.err = Nil

\* The number of tokens the multiplexer has published on Content.
PublishedCount == Cardinality({i \in 1..Len(log) : log[i].ch = "Content"})

\* C27: the i-th token published on Content is the i-th token that arrived
\* from the backend; and the tokens received from the backend are the
\* published ones and at most one more, which is either held by the
\* multiplexer while it offers it on Content or was discarded when the
\* multiplexer terminated.
C27_OrderAndBuffering ==
    /\ \A i \in 1..PublishedCount :
          log[i].ch = "Content" /\ Head(log[i].v) = Chr(i)
    /\ PublishedCount <= bsent /\ bsent <= PublishedCount + 1
    /\ held # <<>> <=> mpc = "send"
    /\ mpc = "send" => (bsent = PublishedCount + 1 /\ Head(held) = Chr(bsent))
    /\ bsent = PublishedCount + 1 => mpc \in {"send", "exited"}

\* C27 witness: the first token was published and the second is held,
\* offered on Content.
C27_Witness ==
    /\ PublishedCount = 1 /\ bsent = 2
    /\ mpc = "send" /\ held # <<>>

\* C28 (as claimed): once the context has ended, the producer of a
\* repository backend (MockProvider, OpenAI) that was started closes both
\* of its sources, whether or not anything still receives from them.
C28_ProducerClosesOnCancel ==
    (kind \in {"mock", "openai"} /\ bpc # "idle" /\ ctxErr # Nil)
        ~> (contentClosed /\ errClosed)

\* The position of the first hook whose AfterResponse fails on the reply
\* Complete returned (0: none).
FirstFailingAfter ==
    IF /\ callRet.resp # <<>> /\ Head(callRet.resp) = Chr(2)
       /\ \E k \in 1..Len(hooks) : hooks[k] = "F"
    THEN CHOOSE k \in 1..Len(hooks) :
            hooks[k] = "F" /\ \A j \in 1..(k - 1) : hooks[j] # "F"
    ELSE 0

\* C31: in a Run the AfterResponse hooks are invoked only after Complete
\* returned a reply and no error; they run in registration order, each on
\* the response the previous one returned, and the response handed on to
\* Parse is the last one's; when one fails, Run returns "hook error"
\* wrapping its error, no later hook is invoked and neither Parse nor
\* Validate runs.
C31_AfterHooks ==
    /\ afterRan # <<>> => "AfterHooks" \in StagesRun
    /\ "AfterHooks" \in StagesRun =>
          /\ completeCalls = 1 /\ callRet.err = Nil /\ callRet.resp # <<>>
          /\ FirstFailingAfter = 0
             => /\ afterRan = Positions(Len(hooks))
                /\ runResp = callRet.resp \o AfterMarks
                /\ ~Is(runErr, HookFailure)
          /\ FirstFailingAfter # 0
             => /\ afterRan = Positions(FirstFailingAfter)
                /\ runPc = "Failed" /\ LastStage = "AfterHooks"
                /\ runErr = Wrap("hook error", HookFailure)
                /\ StagesRun \cap {"Parsing", "Validating"} = {}
                /\ runOut = ZeroO

\* C31 witness: the first of two hooks failed on the reply; the second was
\* not invoked and nothing was parsed.
C31_Witness ==
    /\ hooks = <<"F", "A">>
    /\ callRet.err = Nil
    /\ afterRan = <<1>>
    /\ runPc = "Failed" /\ runErr = Wrap("hook error", HookFailure)

\* The text holds no fence at all.
NoFence(text) == \A i \in 1..Len(text) : text[i] # Fence

\* The content of the first fenced block of the text: what lies between the
\* first fence and the fence that follows it.
FirstBlock(text) ==
    LET i == CHOOSE a \in 1..Len(text) :
                 text[a] = Fence /\ \A b \in 1..(a - 1) : text[b] # Fence
        j == CHOOSE a \in (i + 1)..Len(text) :
                 text[a] = Fence /\ \A b \in (i + 1)..(a - 1) : text[b] # Fence
    IN  [k \in 1..(j - i - 1) |-> text[i + k]]

\* The text is the JSON object d and nothing else, and d decodes into O.
IsObject(text, d) == text = <<Json(d)>> /\ Decodes(d)

\* Run failed at Parsing, with the invalid-response error.
FailedAtParsing ==
    /\ runPc = "Failed" /\ LastStage = "Parsing"
    /\ Is(runErr, ErrInvalidResponse)

\* C32: with no hooks, once Run has parsed the reply: a reply with fenced
\* blocks yields the value of the object in its first block, whatever
\* follows that block, and fails at Parsing when the first block is not a
\* JSON object that decodes, also when a later block is one and when the
\* reply as a whole is valid JSON; a reply with no fence yields the value
\* of the object that the whole reply is, and fails when it is none.
C32_FirstBlockOnly ==
    ( /\ hooks = <<>> /\ callRet.err = Nil
      /\ "Parsing" \in StagesRun )
    => /\ HasFencedBlock(callRet.resp)
          => IF \E d \in Docs : IsObject(FirstBlock(callRet.resp), d)
             THEN /\ ~FailedAtParsing
                  /\ \A d \in Docs :
                        IsObject(FirstBlock(callRet.resp), d) => runOut = ValueOf(d)
             ELSE FailedAtParsing
       /\ NoFence(callRet.resp)
          => IF \E d \in Docs : IsObject(callRet.resp, d)
             THEN /\ ~FailedAtParsing
                  /\ \A d \in Docs :
                        IsObject(callRet.resp, d) => runOut = ValueOf(d)
             ELSE FailedAtParsing

\* C32 witness: of two fenced objects the first, whose title fits, was
\* returned, and not the second, whose title is too long.
C32_Witness ==
    /\ hooks = <<>> /\ ctxErr = Nil
    /\ callRet.resp = <<Fence, Json(Doc("fits", "fits")), Fence, Chr(1),
                        Fence, Json(Doc("long", "fits")), Fence>>
    /\ runPc = "Done" /\ runOut = Doc("fits", "fits")

\* The earlier of two deadlines, either of which may be none (0).
Earlier(a, b) ==
    IF a = 0 THEN b ELSE IF b = 0 THEN a ELSE IF a <= b THEN a ELSE b

\* C33: the context that governs a Run call has the earlier of the caller's
\* deadline and (the instant of the call + the configured timeout) as its
\* deadline, so never one later than the caller's; with a zero timeout it
\* has the caller's deadline, or none; and it expires when that deadline
\* arrives, never before (at once when the deadline had passed before the
\* call).
C33_TimeoutNeverLoosens ==
    tpc \in {"running", "expired", "returned"} =>
       /\ tmoDur > 0 => govDl = Earlier(callerDl, startAt + tmoDur)
       /\ tmoDur = 0 => govDl = callerDl
       /\ callerDl # 0 => (govDl # 0 /\ govDl <= callerDl)
       /\ tpc = "expired"
          => /\ govDl # 0
             /\ expiredAt = IF govDl >= startAt THEN govDl ELSE startAt

\* C33 witness: the caller's deadline was earlier than the timeout's and
\* the call expired at the caller's.
C33_Witness ==
    /\ tpc = "expired"
    /\ tmoDur = 3 /\ startAt = 2 /\ callerDl = 4
    /\ govDl = 4 /\ expiredAt = 4

\* C34 (as claimed): a Run whose backend returned an error carrying
\* provider.ErrRateLimit returns an error for which IsRateLimit holds, and
\* one carrying provider.ErrContextLength an error for which
\* IsContextLength holds, whatever the state of the call's deadline.
C34_ClassifiedByErrorOnly ==
    callRet.err # Nil =>
       /\ Is(callRet.err, ProviderErrRateLimit) => IsRateLimit(runErr)
       /\ Is(callRet.err, ProviderErrContextLength) => IsContextLength(runErr)

\* C34 (amended): when Complete returns an error carrying
\* provider.ErrRateLimit or provider.ErrContextLength, Run returns
\* ErrTimeout if the deadline of the call's context has expired by then,
\* and ErrRateLimit or ErrContextLength only if it has not.
C34_DeadlineFirst ==
    [][ ( /\ runPc = "InCall" /\ runPc' # "InCall"
          /\ \/ Is(callRet'.err, ProviderErrRateLimit)
             \/ Is(callRet'.err, ProviderErrContextLength) )
        => /\ runPc' = "Failed"
           /\ runErr' = IF ctxErr = DeadlineExceeded THEN ErrTimeout
                        ELSE IF Is(callRet'.err, ProviderErrRateLimit)
                             THEN ErrRateLimit
                             ELSE ErrContextLength ]_vars

\* C34 witness: the backend answered with its rate-limit error after the
\* deadline had expired, and Run returned the timeout error.
C34_Witness ==
    /\ callRet.err = Wrap("openai", ProviderErrRateLimit)
    /\ ctxErr = DeadlineExceeded
    /\ runPc = "Failed" /\ runErr = ErrTimeout

\* C35 (as claimed): whenever Run has returned an error, the value it
\* returned with it is the zero value of O.
C35_ZeroValueOnError ==
    runErr # Nil => runOut = ZeroO

\* C35 (amended): a Run that returned an error before it parsed the reply
\* (configuration, rendering, a hook, the backend call, a timeout, a
\* cancellation) returned the zero value of O with it; one that failed
\* validation returned, with the error, the value it had decoded from the
\* reply.
C35_ZeroBeforeParse ==
    runPc = "Failed" =>
       /\ StagesRun \cap {"Parsing", "Validating"} = {} => runOut = ZeroO
       /\ LastStage = "Validating"
          => /\ IsValidation(runErr)
             /\ \A d \in Docs :
                   (hooks = <<>> /\ Carries(callRet.resp, d))
                   => runOut = ValueOf(d)

\* C35 witness: a reply whose title is too long was decoded, failed
\* validation, and was returned beside the error.
C35_Witness ==
    /\ hooks = <<>>
    /\ callRet.resp = <<Json(Doc("long", "fits"))>>
    /\ runPc = "Failed" /\ IsValidation(runErr)
    /\ runOut = Doc("long", "fits")


\* The calls that have invoked the backend they resolved.
LazyCalled == {c \in Callers : lazyPc[c] = "called"}

\* C36: when several Run/Stream calls start together on a Generator with
\* no backend configured and the credential present, g.provider is assigned
\* at most once and every call invokes the same backend instance.
C36_ResolvedOnce ==
    (lazyPc # <<>> /\ envKey)
    => /\ Len(gWrites) <= 1
       /\ \A a, b \in LazyCalled : lazyUsed[a] = lazyUsed[b]

\* The multiplexer has terminated on the failure of a hook or on an error
\* of the backend, sent while the context had not ended.
EndedOnFailure ==
    /\ MuxTerminated /\ log # <<>>
    /\ LET t == log[Len(log)]
       IN  /\ t.ch = "Err" /\ ~t.late
           /\ \/ Is(t.v, HookFailure)
              \/ t.v # Nil /\ t.v = bputErr

\* C37: whenever the multiplexer terminates on a hook failure or a backend
\* error while the context has not ended, the producer of a repository
\* backend (MockProvider, OpenAI) eventually terminates, unless the context
\* ends meanwhile.
C37_ProducerTerminates ==
    (kind \in {"mock", "openai"} /\ EndedOnFailure /\ ctxErr = Nil)
        ~> (bpc = "done" \/ ctxErr # Nil)

\* The calls that have returned, and the errors they returned.
MockReturned == {c \in Callers : mockPc[c] = "returned"}
Returners(e) == {c \in MockReturned : mockRet[c] = e}
Occurrences(q, x) == Cardinality({i \in 1..Len(q) : q[i] = x})

\* C38: once the concurrent Complete/Stream calls on one MockProvider
\* have returned, Prompts holds exactly one entry for each of them, and
\* every error taken from Errors was returned by exactly one call: the
\* errors no longer queued are those the calls returned, each once.
C38_MockRecordsEachCall ==
    (mockPc # <<>> /\ MockReturned = Callers)
    => /\ Len(mPrompts) = MaxCallers
       /\ \A c \in Callers : Occurrences(mPrompts, c) = 1
       /\ \A e \in 1..Len(mQueued) :
             /\ Cardinality(Returners(e)) <= 1
             /\ (Occurrences(mErrors, e) = 0) <=> (Returners(e) # {})

=============================================================================
